---- MODULE Spec2Model ----
(***************************************************************************)
(* The Disfuse ledger: the SocialMedia contract (profiles, posts, likes,   *)
(* comments, follow edges) and the Governance contract (proposals, votes). *)
(*                                                                         *)
(* Each external function of a contract is an operator from the storage    *)
(* at entry, the sender and the arguments to an outcome: the storage at    *)
(* exit, the success flag, the revert message, the returned values and the *)
(* events emitted.  Statements are applied in source order.  A failed      *)
(* require and a checked-arithmetic panic (Solidity ^0.8) revert the       *)
(* transaction: Revert hands back the storage at entry and no events.      *)
(*                                                                         *)
(* The event log is append-only; it is represented by `receipt.logs`, the  *)
(* events appended by the latest transaction.  `createPostCalls` is a      *)
(* history variable: the number of createPost transactions that succeeded. *)
(*                                                                         *)
(* The front end is two further state machines over React state: `home`,   *)
(* the feed of the Home page (fetchPosts, loadMorePosts), and `web3`, the  *)
(* wallet provider (connectWallet, disconnectWallet, accountsChanged).  An *)
(* async function is one action per stretch between two awaits.  HomeSpec  *)
(* and Web3Spec run them; under Spec they stay as constructed.             *)
(***************************************************************************)
EXTENDS Integers, Sequences, FiniteSets, TLC

VARIABLES socialMedia, governance, now, receipt, createPostCalls, home, web3

vars == <<socialMedia, governance, now, receipt, createPostCalls, home, web3>>

----------------------------------------------------------------------------
(* Bounds of the exploration *)

NumAccounts == 2
MaxPosts == 1
MaxComments == 1
MaxProposals == 1
MaxTicks == 1
MaxFeedPosts == 12
MaxLookups == 2

----------------------------------------------------------------------------
(* Accounts, inputs and time *)

ZeroAddress == 0
Accounts == 1..NumAccounts
Addresses == {ZeroAddress} \cup Accounts
Deployer == CHOOSE a \in Accounts : \A b \in Accounts : a <= b

PostKeys == 0..(MaxPosts + 1)
CommentKeys == 0..(MaxComments + 1)

ProfileInputs == {<<"alice", "bio", "cid1">>, <<"bob", "", "cid2">>}
IpfsHashes == {"cid1", "cid2"}
Contents == {"hello"}

DAY == 86400

----------------------------------------------------------------------------
(* Outcome of a transaction *)

Ok(st, logs, ret) ==
    [st |-> st, ok |-> TRUE, err |-> "", ret |-> ret, logs |-> logs]

Revert(entry, msg) ==
    [st |-> entry, ok |-> FALSE, err |-> msg, ret |-> <<>>, logs |-> <<>>]

Panic == "Panic(0x11)"

----------------------------------------------------------------------------
(* SocialMedia: storage *)

ZeroPost ==
    [id |-> 0, creator |-> ZeroAddress, ipfsHash |-> "", timestamp |-> 0,
     likeCount |-> 0, commentCount |-> 0, isActive |-> FALSE]

ZeroComment ==
    [id |-> 0, postId |-> 0, creator |-> ZeroAddress, content |-> "",
     timestamp |-> 0, isActive |-> FALSE]

ZeroProfile ==
    [user |-> ZeroAddress, username |-> "", bio |-> "",
     profilePictureIpfsHash |-> "", followerCount |-> 0,
     followingCount |-> 0, isActive |-> FALSE]

SocialMediaInit ==
    [owner |-> Deployer,
     postIds |-> 0,
     commentIds |-> 0,
     posts |-> [k \in PostKeys |-> ZeroPost],
     comments |-> [k \in CommentKeys |-> ZeroComment],
     profiles |-> [a \in Addresses |-> ZeroProfile],
     postLikes |-> [a \in Addresses |-> [k \in PostKeys |-> FALSE]],
     follows |-> [a \in Addresses |-> [b \in Addresses |-> FALSE]]]

----------------------------------------------------------------------------
(* SocialMedia: events *)

ProfileCreated(user, username) ==
    [event |-> "ProfileCreated", user |-> user, username |-> username]

ProfileUpdated(user, username) ==
    [event |-> "ProfileUpdated", user |-> user, username |-> username]

PostCreated(postId, creator, ipfsHash) ==
    [event |-> "PostCreated", postId |-> postId, creator |-> creator,
     ipfsHash |-> ipfsHash]

PostLiked(postId, liker) ==
    [event |-> "PostLiked", postId |-> postId, liker |-> liker]

PostUnliked(postId, unliker) ==
    [event |-> "PostUnliked", postId |-> postId, unliker |-> unliker]

CommentAdded(commentId, postId, creator) ==
    [event |-> "CommentAdded", commentId |-> commentId, postId |-> postId,
     creator |-> creator]

Followed(follower, followed) ==
    [event |-> "Followed", follower |-> follower, followed |-> followed]

Unfollowed(follower, followed) ==
    [event |-> "Unfollowed", follower |-> follower, followed |-> followed]

----------------------------------------------------------------------------
(* SocialMedia: mutating functions *)

(* createProfile without the require on an existing profile *)
createProfile_Overwrites(s, sender, _username, _bio, _profilePictureIpfsHash) ==
    LET s1 == [s EXCEPT !.profiles[sender] =
                   [user |-> sender,
                    username |-> _username,
                    bio |-> _bio,
                    profilePictureIpfsHash |-> _profilePictureIpfsHash,
                    followerCount |-> 0,
                    followingCount |-> 0,
                    isActive |-> TRUE]]
    IN Ok(s1, <<ProfileCreated(sender, _username)>>, <<>>)

createProfile(s, sender, _username, _bio, _profilePictureIpfsHash) ==
    IF s.profiles[sender].user # ZeroAddress
    THEN Revert(s, "Profile already exists")
    ELSE LET s1 == [s EXCEPT !.profiles[sender] =
                        [user |-> sender,
                         username |-> _username,
                         bio |-> _bio,
                         profilePictureIpfsHash |-> _profilePictureIpfsHash,
                         followerCount |-> 0,
                         followingCount |-> 0,
                         isActive |-> TRUE]]
         IN Ok(s1, <<ProfileCreated(sender, _username)>>, <<>>)

(* updateProfile that writes the whole struct anew, as createProfile does *)
updateProfile_Rewrites(s, sender, _username, _bio, _profilePictureIpfsHash) ==
    IF s.profiles[sender].user = ZeroAddress
    THEN Revert(s, "Profile does not exist")
    ELSE IF ~s.profiles[sender].isActive
    THEN Revert(s, "Profile is not active")
    ELSE LET s1 == [s EXCEPT !.profiles[sender] =
                        [user |-> sender,
                         username |-> _username,
                         bio |-> _bio,
                         profilePictureIpfsHash |-> _profilePictureIpfsHash,
                         followerCount |-> 0,
                         followingCount |-> 0,
                         isActive |-> TRUE]]
         IN Ok(s1, <<ProfileUpdated(sender, _username)>>, <<>>)

updateProfile(s, sender, _username, _bio, _profilePictureIpfsHash) ==
    IF s.profiles[sender].user = ZeroAddress
    THEN Revert(s, "Profile does not exist")
    ELSE IF ~s.profiles[sender].isActive
    THEN Revert(s, "Profile is not active")
    ELSE LET s1 == [s EXCEPT !.profiles[sender].username = _username]
             s2 == [s1 EXCEPT !.profiles[sender].bio = _bio]
             s3 == [s2 EXCEPT !.profiles[sender].profilePictureIpfsHash =
                                  _profilePictureIpfsHash]
         IN Ok(s3, <<ProfileUpdated(sender, _username)>>, <<>>)

(* createPost that reads the post id before it increments the counter *)
createPost_StaleId(s, sender, timestamp, _ipfsHash) ==
    IF s.profiles[sender].user = ZeroAddress
    THEN Revert(s, "Profile does not exist")
    ELSE IF ~s.profiles[sender].isActive
    THEN Revert(s, "Profile is not active")
    ELSE LET postId == s.postIds
             s1 == [s EXCEPT !.postIds = @ + 1]
             s2 == [s1 EXCEPT !.posts[postId] =
                        [id |-> postId,
                         creator |-> sender,
                         ipfsHash |-> _ipfsHash,
                         timestamp |-> timestamp,
                         likeCount |-> 0,
                         commentCount |-> 0,
                         isActive |-> TRUE]]
         IN Ok(s2, <<PostCreated(postId, sender, _ipfsHash)>>, <<>>)

(* createPost without the requires on the caller's profile *)
createPost_AnyCaller(s, sender, timestamp, _ipfsHash) ==
    LET s1 == [s EXCEPT !.postIds = @ + 1]
        postId == s1.postIds
        s2 == [s1 EXCEPT !.posts[postId] =
                   [id |-> postId,
                    creator |-> sender,
                    ipfsHash |-> _ipfsHash,
                    timestamp |-> timestamp,
                    likeCount |-> 0,
                    commentCount |-> 0,
                    isActive |-> TRUE]]
    IN Ok(s2, <<PostCreated(postId, sender, _ipfsHash)>>, <<>>)

(* createPost that takes two ids from the counter *)
createPost_SkipsId(s, sender, timestamp, _ipfsHash) ==
    IF s.profiles[sender].user = ZeroAddress
    THEN Revert(s, "Profile does not exist")
    ELSE IF ~s.profiles[sender].isActive
    THEN Revert(s, "Profile is not active")
    ELSE LET s1 == [s EXCEPT !.postIds = @ + 2]
             postId == s1.postIds
             s2 == [s1 EXCEPT !.posts[postId] =
                        [id |-> postId,
                         creator |-> sender,
                         ipfsHash |-> _ipfsHash,
                         timestamp |-> timestamp,
                         likeCount |-> 0,
                         commentCount |-> 0,
                         isActive |-> TRUE]]
         IN Ok(s2, <<PostCreated(postId, sender, _ipfsHash)>>, <<>>)

(* createPost that stores the post and leaves the counter *)
createPost_NoCount(s, sender, timestamp, _ipfsHash) ==
    IF s.profiles[sender].user = ZeroAddress
    THEN Revert(s, "Profile does not exist")
    ELSE IF ~s.profiles[sender].isActive
    THEN Revert(s, "Profile is not active")
    ELSE LET postId == s.postIds + 1
             s2 == [s EXCEPT !.posts[postId] =
                        [id |-> postId,
                         creator |-> sender,
                         ipfsHash |-> _ipfsHash,
                         timestamp |-> timestamp,
                         likeCount |-> 0,
                         commentCount |-> 0,
                         isActive |-> TRUE]]
         IN Ok(s2, <<PostCreated(postId, sender, _ipfsHash)>>, <<>>)

(* createPost that leaves the isActive flag of the post unset *)
createPost_Inactive(s, sender, timestamp, _ipfsHash) ==
    IF s.profiles[sender].user = ZeroAddress
    THEN Revert(s, "Profile does not exist")
    ELSE IF ~s.profiles[sender].isActive
    THEN Revert(s, "Profile is not active")
    ELSE LET s1 == [s EXCEPT !.postIds = @ + 1]
             postId == s1.postIds
             s2 == [s1 EXCEPT !.posts[postId] =
                        [id |-> postId,
                         creator |-> sender,
                         ipfsHash |-> _ipfsHash,
                         timestamp |-> timestamp,
                         likeCount |-> 0,
                         commentCount |-> 0,
                         isActive |-> FALSE]]
         IN Ok(s2, <<PostCreated(postId, sender, _ipfsHash)>>, <<>>)

createPost(s, sender, timestamp, _ipfsHash) ==
    IF s.profiles[sender].user = ZeroAddress
    THEN Revert(s, "Profile does not exist")
    ELSE IF ~s.profiles[sender].isActive
    THEN Revert(s, "Profile is not active")
    ELSE LET s1 == [s EXCEPT !.postIds = @ + 1]
             postId == s1.postIds
             s2 == [s1 EXCEPT !.posts[postId] =
                        [id |-> postId,
                         creator |-> sender,
                         ipfsHash |-> _ipfsHash,
                         timestamp |-> timestamp,
                         likeCount |-> 0,
                         commentCount |-> 0,
                         isActive |-> TRUE]]
         IN Ok(s2, <<PostCreated(postId, sender, _ipfsHash)>>, <<>>)

(* likePost that sets the edge and leaves the count *)
likePost_NoCount(s, sender, _postId) ==
    IF s.posts[_postId].id = 0
    THEN Revert(s, "Post does not exist")
    ELSE IF ~s.posts[_postId].isActive
    THEN Revert(s, "Post is not active")
    ELSE IF s.postLikes[sender][_postId]
    THEN Revert(s, "Already liked this post")
    ELSE LET s1 == [s EXCEPT !.postLikes[sender][_postId] = TRUE]
         IN Ok(s1, <<PostLiked(_postId, sender)>>, <<>>)

(* likePost without the require on the like edge *)
likePost_NoGuard(s, sender, _postId) ==
    IF s.posts[_postId].id = 0
    THEN Revert(s, "Post does not exist")
    ELSE IF ~s.posts[_postId].isActive
    THEN Revert(s, "Post is not active")
    ELSE LET s1 == [s EXCEPT !.postLikes[sender][_postId] = TRUE]
             s2 == [s1 EXCEPT !.posts[_postId].likeCount = @ + 1]
         IN Ok(s2, <<PostLiked(_postId, sender)>>, <<>>)

(* likePost that asks the caller for a profile, as createPost does *)
likePost_NeedsProfile(s, sender, _postId) ==
    IF s.posts[_postId].id = 0
    THEN Revert(s, "Post does not exist")
    ELSE IF ~s.posts[_postId].isActive
    THEN Revert(s, "Post is not active")
    ELSE IF s.profiles[sender].user = ZeroAddress
    THEN Revert(s, "Profile does not exist")
    ELSE IF s.postLikes[sender][_postId]
    THEN Revert(s, "Already liked this post")
    ELSE LET s1 == [s EXCEPT !.postLikes[sender][_postId] = TRUE]
             s2 == [s1 EXCEPT !.posts[_postId].likeCount = @ + 1]
         IN Ok(s2, <<PostLiked(_postId, sender)>>, <<>>)

(* likePost that makes the liker the creator of the post *)
likePost_TakesPost(s, sender, _postId) ==
    IF s.posts[_postId].id = 0
    THEN Revert(s, "Post does not exist")
    ELSE IF ~s.posts[_postId].isActive
    THEN Revert(s, "Post is not active")
    ELSE IF s.postLikes[sender][_postId]
    THEN Revert(s, "Already liked this post")
    ELSE LET s1 == [s EXCEPT !.postLikes[sender][_postId] = TRUE]
             s2 == [s1 EXCEPT !.posts[_postId].likeCount = @ + 1,
                              !.posts[_postId].creator = sender]
         IN Ok(s2, <<PostLiked(_postId, sender)>>, <<>>)

(* likePost that records the like under the creator of the post *)
likePost_AsCreator(s, sender, _postId) ==
    IF s.posts[_postId].id = 0
    THEN Revert(s, "Post does not exist")
    ELSE IF ~s.posts[_postId].isActive
    THEN Revert(s, "Post is not active")
    ELSE IF s.postLikes[sender][_postId]
    THEN Revert(s, "Already liked this post")
    ELSE LET s1 == [s EXCEPT
                        !.postLikes[s.posts[_postId].creator][_postId] = TRUE]
             s2 == [s1 EXCEPT !.posts[_postId].likeCount = @ + 1]
         IN Ok(s2, <<PostLiked(_postId, sender)>>, <<>>)

likePost(s, sender, _postId) ==
    IF s.posts[_postId].id = 0
    THEN Revert(s, "Post does not exist")
    ELSE IF ~s.posts[_postId].isActive
    THEN Revert(s, "Post is not active")
    ELSE IF s.postLikes[sender][_postId]
    THEN Revert(s, "Already liked this post")
    ELSE LET s1 == [s EXCEPT !.postLikes[sender][_postId] = TRUE]
             s2 == [s1 EXCEPT !.posts[_postId].likeCount = @ + 1]
         IN Ok(s2, <<PostLiked(_postId, sender)>>, <<>>)

(* unlikePost without the require on the like edge *)
unlikePost_NoGuard(s, sender, _postId) ==
    IF s.posts[_postId].id = 0
    THEN Revert(s, "Post does not exist")
    ELSE IF ~s.posts[_postId].isActive
    THEN Revert(s, "Post is not active")
    ELSE LET s1 == [s EXCEPT !.postLikes[sender][_postId] = FALSE]
         IN IF s1.posts[_postId].likeCount = 0
            THEN Revert(s, Panic)
            ELSE LET s2 == [s1 EXCEPT !.posts[_postId].likeCount = @ - 1]
                 IN Ok(s2, <<PostUnliked(_postId, sender)>>, <<>>)

(* unlikePost that emits the event of likePost *)
unlikePost_EmitsLiked(s, sender, _postId) ==
    IF s.posts[_postId].id = 0
    THEN Revert(s, "Post does not exist")
    ELSE IF ~s.posts[_postId].isActive
    THEN Revert(s, "Post is not active")
    ELSE IF ~s.postLikes[sender][_postId]
    THEN Revert(s, "Haven't liked this post")
    ELSE LET s1 == [s EXCEPT !.postLikes[sender][_postId] = FALSE]
         IN IF s1.posts[_postId].likeCount = 0
            THEN Revert(s, Panic)
            ELSE LET s2 == [s1 EXCEPT !.posts[_postId].likeCount = @ - 1]
                 IN Ok(s2, <<PostLiked(_postId, sender)>>, <<>>)

unlikePost(s, sender, _postId) ==
    IF s.posts[_postId].id = 0
    THEN Revert(s, "Post does not exist")
    ELSE IF ~s.posts[_postId].isActive
    THEN Revert(s, "Post is not active")
    ELSE IF ~s.postLikes[sender][_postId]
    THEN Revert(s, "Haven't liked this post")
    ELSE LET s1 == [s EXCEPT !.postLikes[sender][_postId] = FALSE]
         IN IF s1.posts[_postId].likeCount = 0
            THEN Revert(s, Panic)
            ELSE LET s2 == [s1 EXCEPT !.posts[_postId].likeCount = @ - 1]
                 IN Ok(s2, <<PostUnliked(_postId, sender)>>, <<>>)

(* addComment that takes the comment id before it looks at the profile and  *)
(* keeps the id when the profile is missing                                 *)
addComment_CountsFirst(s, sender, timestamp, _postId, _content) ==
    IF s.posts[_postId].id = 0
    THEN Revert(s, "Post does not exist")
    ELSE IF ~s.posts[_postId].isActive
    THEN Revert(s, "Post is not active")
    ELSE LET s1 == [s EXCEPT !.commentIds = @ + 1]
             commentId == s1.commentIds
         IN IF s.profiles[sender].user = ZeroAddress
            THEN Revert(s1, "Profile does not exist")
            ELSE IF ~s.profiles[sender].isActive
            THEN Revert(s1, "Profile is not active")
            ELSE LET s2 == [s1 EXCEPT !.comments[commentId] =
                                [id |-> commentId,
                                 postId |-> _postId,
                                 creator |-> sender,
                                 content |-> _content,
                                 timestamp |-> timestamp,
                                 isActive |-> TRUE]]
                     s3 == [s2 EXCEPT !.posts[_postId].commentCount = @ + 1]
                 IN Ok(s3, <<CommentAdded(commentId, _postId, sender)>>, <<>>)

(* addComment that stores the comment and leaves the post's commentCount *)
addComment_NoCount(s, sender, timestamp, _postId, _content) ==
    IF s.posts[_postId].id = 0
    THEN Revert(s, "Post does not exist")
    ELSE IF ~s.posts[_postId].isActive
    THEN Revert(s, "Post is not active")
    ELSE IF s.profiles[sender].user = ZeroAddress
    THEN Revert(s, "Profile does not exist")
    ELSE IF ~s.profiles[sender].isActive
    THEN Revert(s, "Profile is not active")
    ELSE LET s1 == [s EXCEPT !.commentIds = @ + 1]
             commentId == s1.commentIds
             s2 == [s1 EXCEPT !.comments[commentId] =
                        [id |-> commentId,
                         postId |-> _postId,
                         creator |-> sender,
                         content |-> _content,
                         timestamp |-> timestamp,
                         isActive |-> TRUE]]
         IN Ok(s2, <<CommentAdded(commentId, _postId, sender)>>, <<>>)

addComment(s, sender, timestamp, _postId, _content) ==
    IF s.posts[_postId].id = 0
    THEN Revert(s, "Post does not exist")
    ELSE IF ~s.posts[_postId].isActive
    THEN Revert(s, "Post is not active")
    ELSE IF s.profiles[sender].user = ZeroAddress
    THEN Revert(s, "Profile does not exist")
    ELSE IF ~s.profiles[sender].isActive
    THEN Revert(s, "Profile is not active")
    ELSE LET s1 == [s EXCEPT !.commentIds = @ + 1]
             commentId == s1.commentIds
             s2 == [s1 EXCEPT !.comments[commentId] =
                        [id |-> commentId,
                         postId |-> _postId,
                         creator |-> sender,
                         content |-> _content,
                         timestamp |-> timestamp,
                         isActive |-> TRUE]]
             s3 == [s2 EXCEPT !.posts[_postId].commentCount = @ + 1]
         IN Ok(s3, <<CommentAdded(commentId, _postId, sender)>>, <<>>)

(* followUser that counts the follower on the caller's own profile *)
followUser_OwnCount(s, sender, _userToFollow) ==
    IF _userToFollow = sender
    THEN Revert(s, "Cannot follow yourself")
    ELSE IF s.profiles[sender].user = ZeroAddress
    THEN Revert(s, "Your profile does not exist")
    ELSE IF s.profiles[_userToFollow].user = ZeroAddress
    THEN Revert(s, "Target profile does not exist")
    ELSE IF ~s.profiles[sender].isActive
    THEN Revert(s, "Your profile is not active")
    ELSE IF ~s.profiles[_userToFollow].isActive
    THEN Revert(s, "Target profile is not active")
    ELSE IF s.follows[sender][_userToFollow]
    THEN Revert(s, "Already following this user")
    ELSE LET s1 == [s EXCEPT !.follows[sender][_userToFollow] = TRUE]
             s2 == [s1 EXCEPT !.profiles[sender].followingCount = @ + 1]
             s3 == [s2 EXCEPT !.profiles[sender].followerCount = @ + 1]
         IN Ok(s3, <<Followed(sender, _userToFollow)>>, <<>>)

(* followUser that leaves the caller's followingCount *)
followUser_NoFollowing(s, sender, _userToFollow) ==
    IF _userToFollow = sender
    THEN Revert(s, "Cannot follow yourself")
    ELSE IF s.profiles[sender].user = ZeroAddress
    THEN Revert(s, "Your profile does not exist")
    ELSE IF s.profiles[_userToFollow].user = ZeroAddress
    THEN Revert(s, "Target profile does not exist")
    ELSE IF ~s.profiles[sender].isActive
    THEN Revert(s, "Your profile is not active")
    ELSE IF ~s.profiles[_userToFollow].isActive
    THEN Revert(s, "Target profile is not active")
    ELSE IF s.follows[sender][_userToFollow]
    THEN Revert(s, "Already following this user")
    ELSE LET s1 == [s EXCEPT !.follows[sender][_userToFollow] = TRUE]
             s2 == [s1 EXCEPT !.profiles[_userToFollow].followerCount = @ + 1]
         IN Ok(s2, <<Followed(sender, _userToFollow)>>, <<>>)

(* followUser that sets the edge in both directions *)
followUser_BothWays(s, sender, _userToFollow) ==
    IF _userToFollow = sender
    THEN Revert(s, "Cannot follow yourself")
    ELSE IF s.profiles[sender].user = ZeroAddress
    THEN Revert(s, "Your profile does not exist")
    ELSE IF s.profiles[_userToFollow].user = ZeroAddress
    THEN Revert(s, "Target profile does not exist")
    ELSE IF ~s.profiles[sender].isActive
    THEN Revert(s, "Your profile is not active")
    ELSE IF ~s.profiles[_userToFollow].isActive
    THEN Revert(s, "Target profile is not active")
    ELSE IF s.follows[sender][_userToFollow]
    THEN Revert(s, "Already following this user")
    ELSE LET s1 == [s EXCEPT !.follows[sender][_userToFollow] = TRUE,
                             !.follows[_userToFollow][sender] = TRUE]
             s2 == [s1 EXCEPT !.profiles[sender].followingCount = @ + 1]
             s3 == [s2 EXCEPT !.profiles[_userToFollow].followerCount = @ + 1]
         IN Ok(s3, <<Followed(sender, _userToFollow)>>, <<>>)

(* followUser that looks at the caller's profile before it compares the    *)
(* target with the caller                                                   *)
followUser_ProfileFirst(s, sender, _userToFollow) ==
    IF s.profiles[sender].user = ZeroAddress
    THEN Revert(s, "Your profile does not exist")
    ELSE IF _userToFollow = sender
    THEN Revert(s, "Cannot follow yourself")
    ELSE IF s.profiles[_userToFollow].user = ZeroAddress
    THEN Revert(s, "Target profile does not exist")
    ELSE IF ~s.profiles[sender].isActive
    THEN Revert(s, "Your profile is not active")
    ELSE IF ~s.profiles[_userToFollow].isActive
    THEN Revert(s, "Target profile is not active")
    ELSE IF s.follows[sender][_userToFollow]
    THEN Revert(s, "Already following this user")
    ELSE LET s1 == [s EXCEPT !.follows[sender][_userToFollow] = TRUE]
             s2 == [s1 EXCEPT !.profiles[sender].followingCount = @ + 1]
             s3 == [s2 EXCEPT !.profiles[_userToFollow].followerCount = @ + 1]
         IN Ok(s3, <<Followed(sender, _userToFollow)>>, <<>>)

(* followUser without the require on the caller not being the target *)
followUser_AllowsSelf(s, sender, _userToFollow) ==
    IF s.profiles[sender].user = ZeroAddress
    THEN Revert(s, "Your profile does not exist")
    ELSE IF s.profiles[_userToFollow].user = ZeroAddress
    THEN Revert(s, "Target profile does not exist")
    ELSE IF ~s.profiles[sender].isActive
    THEN Revert(s, "Your profile is not active")
    ELSE IF ~s.profiles[_userToFollow].isActive
    THEN Revert(s, "Target profile is not active")
    ELSE IF s.follows[sender][_userToFollow]
    THEN Revert(s, "Already following this user")
    ELSE LET s1 == [s EXCEPT !.follows[sender][_userToFollow] = TRUE]
             s2 == [s1 EXCEPT !.profiles[sender].followingCount = @ + 1]
             s3 == [s2 EXCEPT !.profiles[_userToFollow].followerCount = @ + 1]
         IN Ok(s3, <<Followed(sender, _userToFollow)>>, <<>>)

followUser(s, sender, _userToFollow) ==
    IF _userToFollow = sender
    THEN Revert(s, "Cannot follow yourself")
    ELSE IF s.profiles[sender].user = ZeroAddress
    THEN Revert(s, "Your profile does not exist")
    ELSE IF s.profiles[_userToFollow].user = ZeroAddress
    THEN Revert(s, "Target profile does not exist")
    ELSE IF ~s.profiles[sender].isActive
    THEN Revert(s, "Your profile is not active")
    ELSE IF ~s.profiles[_userToFollow].isActive
    THEN Revert(s, "Target profile is not active")
    ELSE IF s.follows[sender][_userToFollow]
    THEN Revert(s, "Already following this user")
    ELSE LET s1 == [s EXCEPT !.follows[sender][_userToFollow] = TRUE]
             s2 == [s1 EXCEPT !.profiles[sender].followingCount = @ + 1]
             s3 == [s2 EXCEPT !.profiles[_userToFollow].followerCount = @ + 1]
         IN Ok(s3, <<Followed(sender, _userToFollow)>>, <<>>)

(* unfollowUser that leaves the target's followerCount *)
unfollowUser_KeepsFollower(s, sender, _userToUnfollow) ==
    IF ~s.follows[sender][_userToUnfollow]
    THEN Revert(s, "Not following this user")
    ELSE LET s1 == [s EXCEPT !.follows[sender][_userToUnfollow] = FALSE]
         IN IF s1.profiles[sender].followingCount = 0
            THEN Revert(s, Panic)
            ELSE LET s2 == [s1 EXCEPT !.profiles[sender].followingCount = @ - 1]
                 IN Ok(s2, <<Unfollowed(sender, _userToUnfollow)>>, <<>>)

unfollowUser(s, sender, _userToUnfollow) ==
    IF ~s.follows[sender][_userToUnfollow]
    THEN Revert(s, "Not following this user")
    ELSE LET s1 == [s EXCEPT !.follows[sender][_userToUnfollow] = FALSE]
         IN IF s1.profiles[sender].followingCount = 0
            THEN Revert(s, Panic)
            ELSE LET s2 == [s1 EXCEPT !.profiles[sender].followingCount = @ - 1]
                 IN IF s2.profiles[_userToUnfollow].followerCount = 0
                    THEN Revert(s, Panic)
                    ELSE LET s3 == [s2 EXCEPT
                                 !.profiles[_userToUnfollow].followerCount = @ - 1]
                         IN Ok(s3, <<Unfollowed(sender, _userToUnfollow)>>, <<>>)

----------------------------------------------------------------------------
(* SocialMedia: getter functions *)

getPost(s, _postId) ==
    LET post == s.posts[_postId]
    IN IF post.id = 0
       THEN Revert(s, "Post does not exist")
       ELSE Ok(s, <<>>, <<post.id, post.creator, post.ipfsHash, post.timestamp,
                          post.likeCount, post.commentCount, post.isActive>>)

getProfile(s, _user) ==
    LET profile == s.profiles[_user]
    IN IF profile.user = ZeroAddress
       THEN Revert(s, "Profile does not exist")
       ELSE Ok(s, <<>>, <<profile.user, profile.username, profile.bio,
                          profile.profilePictureIpfsHash, profile.followerCount,
                          profile.followingCount, profile.isActive>>)

hasLiked(s, _user, _postId) == s.postLikes[_user][_postId]

isFollowing(s, _follower, _followed) == s.follows[_follower][_followed]

getTotalPosts(s) == s.postIds

----------------------------------------------------------------------------
(* Governance: constants, storage and events *)

MIN_VOTING_PERIOD == 3 * DAY

QUORUM_PERCENTAGE == 10

ProposalKeys == 0..(MaxProposals + 1)
Descriptions == {"raise the limit"}
VotingPeriods == {MIN_VOTING_PERIOD - 1, MIN_VOTING_PERIOD, MIN_VOTING_PERIOD + DAY}

ZeroProposal ==
    [id |-> 0, proposer |-> ZeroAddress, description |-> "", ipfsHash |-> "",
     forVotes |-> 0, againstVotes |-> 0, startTime |-> 0, endTime |-> 0,
     executed |-> FALSE, canceled |-> FALSE]

GovernanceInit ==
    [owner |-> Deployer,
     proposalIds |-> 0,
     proposals |-> [k \in ProposalKeys |-> ZeroProposal],
     hasVoted |-> [k \in ProposalKeys |-> [a \in Addresses |-> FALSE]]]

ProposalCreated(proposalId, proposer, description, ipfsHash, startTime, endTime) ==
    [event |-> "ProposalCreated", proposalId |-> proposalId,
     proposer |-> proposer, description |-> description,
     ipfsHash |-> ipfsHash, startTime |-> startTime, endTime |-> endTime]

VoteCast(proposalId, voter, support, weight) ==
    [event |-> "VoteCast", proposalId |-> proposalId, voter |-> voter,
     support |-> support, weight |-> weight]

ProposalExecuted(proposalId) ==
    [event |-> "ProposalExecuted", proposalId |-> proposalId]

ProposalCanceled(proposalId) ==
    [event |-> "ProposalCanceled", proposalId |-> proposalId]

----------------------------------------------------------------------------
(* Governance: functions *)

(* createProposal without the require on the voting period *)
createProposal_AnyPeriod(s, sender, timestamp, _description, _ipfsHash, _votingPeriod) ==
    LET s1 == [s EXCEPT !.proposalIds = @ + 1]
        proposalId == s1.proposalIds
        startTime == timestamp
        endTime == startTime + _votingPeriod
        s2 == [s1 EXCEPT !.proposals[proposalId] =
                   [id |-> proposalId,
                    proposer |-> sender,
                    description |-> _description,
                    ipfsHash |-> _ipfsHash,
                    forVotes |-> 0,
                    againstVotes |-> 0,
                    startTime |-> startTime,
                    endTime |-> endTime,
                    executed |-> FALSE,
                    canceled |-> FALSE]]
    IN Ok(s2,
          <<ProposalCreated(proposalId, sender, _description, _ipfsHash,
                            startTime, endTime)>>,
          <<proposalId>>)

createProposal(s, sender, timestamp, _description, _ipfsHash, _votingPeriod) ==
    IF ~(_votingPeriod >= MIN_VOTING_PERIOD)
    THEN Revert(s, "Voting period too short")
    ELSE LET s1 == [s EXCEPT !.proposalIds = @ + 1]
             proposalId == s1.proposalIds
             startTime == timestamp
             endTime == startTime + _votingPeriod
             s2 == [s1 EXCEPT !.proposals[proposalId] =
                        [id |-> proposalId,
                         proposer |-> sender,
                         description |-> _description,
                         ipfsHash |-> _ipfsHash,
                         forVotes |-> 0,
                         againstVotes |-> 0,
                         startTime |-> startTime,
                         endTime |-> endTime,
                         executed |-> FALSE,
                         canceled |-> FALSE]]
         IN Ok(s2,
               <<ProposalCreated(proposalId, sender, _description, _ipfsHash,
                                 startTime, endTime)>>,
               <<proposalId>>)

(* castVote without the require on hasVoted *)
castVote_NoVotedRequire(s, sender, timestamp, _proposalId, _support) ==
    LET proposal == s.proposals[_proposalId]
    IN IF proposal.id = 0
       THEN Revert(s, "Proposal does not exist")
       ELSE IF proposal.executed
       THEN Revert(s, "Proposal already executed")
       ELSE IF proposal.canceled
       THEN Revert(s, "Proposal canceled")
       ELSE IF ~(timestamp <= proposal.endTime)
       THEN Revert(s, "Voting period ended")
       ELSE LET s1 == [s EXCEPT !.hasVoted[_proposalId][sender] = TRUE]
                weight == 1
                s2 == IF _support
                      THEN [s1 EXCEPT !.proposals[_proposalId].forVotes =
                                          @ + weight]
                      ELSE [s1 EXCEPT !.proposals[_proposalId].againstVotes =
                                          @ + weight]
            IN Ok(s2, <<VoteCast(_proposalId, sender, _support, weight)>>, <<>>)

(* castVote without the require on the end time *)
castVote_AnyTime(s, sender, timestamp, _proposalId, _support) ==
    LET proposal == s.proposals[_proposalId]
    IN IF proposal.id = 0
       THEN Revert(s, "Proposal does not exist")
       ELSE IF proposal.executed
       THEN Revert(s, "Proposal already executed")
       ELSE IF proposal.canceled
       THEN Revert(s, "Proposal canceled")
       ELSE IF s.hasVoted[_proposalId][sender]
       THEN Revert(s, "Already voted")
       ELSE LET s1 == [s EXCEPT !.hasVoted[_proposalId][sender] = TRUE]
                weight == 1
                s2 == IF _support
                      THEN [s1 EXCEPT !.proposals[_proposalId].forVotes =
                                          @ + weight]
                      ELSE [s1 EXCEPT !.proposals[_proposalId].againstVotes =
                                          @ + weight]
            IN Ok(s2, <<VoteCast(_proposalId, sender, _support, weight)>>, <<>>)

(* castVote without the require on the proposal id *)
castVote_AnyId(s, sender, timestamp, _proposalId, _support) ==
    LET proposal == s.proposals[_proposalId]
    IN IF proposal.executed
       THEN Revert(s, "Proposal already executed")
       ELSE IF proposal.canceled
       THEN Revert(s, "Proposal canceled")
       ELSE IF ~(timestamp <= proposal.endTime)
       THEN Revert(s, "Voting period ended")
       ELSE IF s.hasVoted[_proposalId][sender]
       THEN Revert(s, "Already voted")
       ELSE LET s1 == [s EXCEPT !.hasVoted[_proposalId][sender] = TRUE]
                weight == 1
                s2 == IF _support
                      THEN [s1 EXCEPT !.proposals[_proposalId].forVotes =
                                          @ + weight]
                      ELSE [s1 EXCEPT !.proposals[_proposalId].againstVotes =
                                          @ + weight]
            IN Ok(s2, <<VoteCast(_proposalId, sender, _support, weight)>>, <<>>)

(* castVote without the require on canceled *)
castVote_OnCanceled(s, sender, timestamp, _proposalId, _support) ==
    LET proposal == s.proposals[_proposalId]
    IN IF proposal.id = 0
       THEN Revert(s, "Proposal does not exist")
       ELSE IF proposal.executed
       THEN Revert(s, "Proposal already executed")
       ELSE IF ~(timestamp <= proposal.endTime)
       THEN Revert(s, "Voting period ended")
       ELSE IF s.hasVoted[_proposalId][sender]
       THEN Revert(s, "Already voted")
       ELSE LET s1 == [s EXCEPT !.hasVoted[_proposalId][sender] = TRUE]
                weight == 1
                s2 == IF _support
                      THEN [s1 EXCEPT !.proposals[_proposalId].forVotes =
                                          @ + weight]
                      ELSE [s1 EXCEPT !.proposals[_proposalId].againstVotes =
                                          @ + weight]
            IN Ok(s2, <<VoteCast(_proposalId, sender, _support, weight)>>, <<>>)

(* castVote that gives a vote for the proposal the weight 2 *)
castVote_DoubleWeight(s, sender, timestamp, _proposalId, _support) ==
    LET proposal == s.proposals[_proposalId]
    IN IF proposal.id = 0
       THEN Revert(s, "Proposal does not exist")
       ELSE IF proposal.executed
       THEN Revert(s, "Proposal already executed")
       ELSE IF proposal.canceled
       THEN Revert(s, "Proposal canceled")
       ELSE IF ~(timestamp <= proposal.endTime)
       THEN Revert(s, "Voting period ended")
       ELSE IF s.hasVoted[_proposalId][sender]
       THEN Revert(s, "Already voted")
       ELSE LET s1 == [s EXCEPT !.hasVoted[_proposalId][sender] = TRUE]
                weight == IF _support THEN 2 ELSE 1
                s2 == IF _support
                      THEN [s1 EXCEPT !.proposals[_proposalId].forVotes =
                                          @ + weight]
                      ELSE [s1 EXCEPT !.proposals[_proposalId].againstVotes =
                                          @ + weight]
            IN Ok(s2, <<VoteCast(_proposalId, sender, _support, weight)>>, <<>>)

castVote(s, sender, timestamp, _proposalId, _support) ==
    LET proposal == s.proposals[_proposalId]
    IN IF proposal.id = 0
       THEN Revert(s, "Proposal does not exist")
       ELSE IF proposal.executed
       THEN Revert(s, "Proposal already executed")
       ELSE IF proposal.canceled
       THEN Revert(s, "Proposal canceled")
       ELSE IF ~(timestamp <= proposal.endTime)
       THEN Revert(s, "Voting period ended")
       ELSE IF s.hasVoted[_proposalId][sender]
       THEN Revert(s, "Already voted")
       ELSE LET s1 == [s EXCEPT !.hasVoted[_proposalId][sender] = TRUE]
                weight == 1
                s2 == IF _support
                      THEN [s1 EXCEPT !.proposals[_proposalId].forVotes =
                                          @ + weight]
                      ELSE [s1 EXCEPT !.proposals[_proposalId].againstVotes =
                                          @ + weight]
            IN Ok(s2, <<VoteCast(_proposalId, sender, _support, weight)>>, <<>>)

(* executeProposal without the require on forVotes > againstVotes *)
executeProposal_NoMajority(s, sender, timestamp, _proposalId) ==
    LET proposal == s.proposals[_proposalId]
    IN IF proposal.id = 0
       THEN Revert(s, "Proposal does not exist")
       ELSE IF proposal.executed
       THEN Revert(s, "Proposal already executed")
       ELSE IF proposal.canceled
       THEN Revert(s, "Proposal canceled")
       ELSE IF ~(timestamp > proposal.endTime)
       THEN Revert(s, "Voting period not ended")
       ELSE LET totalVotes == proposal.forVotes + proposal.againstVotes
                quorumVotes == (totalVotes * QUORUM_PERCENTAGE) \div 100
            IN IF ~(totalVotes >= quorumVotes)
               THEN Revert(s, "Quorum not reached")
               ELSE LET s1 == [s EXCEPT !.proposals[_proposalId].executed = TRUE]
                    IN Ok(s1, <<ProposalExecuted(_proposalId)>>, <<>>)

(* executeProposal that accepts the very endTime *)
executeProposal_AtEnd(s, sender, timestamp, _proposalId) ==
    LET proposal == s.proposals[_proposalId]
    IN IF proposal.id = 0
       THEN Revert(s, "Proposal does not exist")
       ELSE IF proposal.executed
       THEN Revert(s, "Proposal already executed")
       ELSE IF proposal.canceled
       THEN Revert(s, "Proposal canceled")
       ELSE IF ~(timestamp >= proposal.endTime)
       THEN Revert(s, "Voting period not ended")
       ELSE LET totalVotes == proposal.forVotes + proposal.againstVotes
                quorumVotes == (totalVotes * QUORUM_PERCENTAGE) \div 100
            IN IF ~(totalVotes >= quorumVotes)
               THEN Revert(s, "Quorum not reached")
               ELSE IF ~(proposal.forVotes > proposal.againstVotes)
               THEN Revert(s, "Proposal rejected")
               ELSE LET s1 == [s EXCEPT !.proposals[_proposalId].executed = TRUE]
                    IN Ok(s1, <<ProposalExecuted(_proposalId)>>, <<>>)

(* executeProposal whose quorum is not divided by 100 *)
executeProposal_QuorumTimesTen(s, sender, timestamp, _proposalId) ==
    LET proposal == s.proposals[_proposalId]
    IN IF proposal.id = 0
       THEN Revert(s, "Proposal does not exist")
       ELSE IF proposal.executed
       THEN Revert(s, "Proposal already executed")
       ELSE IF proposal.canceled
       THEN Revert(s, "Proposal canceled")
       ELSE IF ~(timestamp > proposal.endTime)
       THEN Revert(s, "Voting period not ended")
       ELSE LET totalVotes == proposal.forVotes + proposal.againstVotes
                quorumVotes == totalVotes * QUORUM_PERCENTAGE
            IN IF ~(totalVotes >= quorumVotes)
               THEN Revert(s, "Quorum not reached")
               ELSE IF ~(proposal.forVotes > proposal.againstVotes)
               THEN Revert(s, "Proposal rejected")
               ELSE LET s1 == [s EXCEPT !.proposals[_proposalId].executed = TRUE]
                    IN Ok(s1, <<ProposalExecuted(_proposalId)>>, <<>>)

(* executeProposal without the require on canceled *)
executeProposal_IgnoresCanceled(s, sender, timestamp, _proposalId) ==
    LET proposal == s.proposals[_proposalId]
    IN IF proposal.id = 0
       THEN Revert(s, "Proposal does not exist")
       ELSE IF proposal.executed
       THEN Revert(s, "Proposal already executed")
       ELSE IF ~(timestamp > proposal.endTime)
       THEN Revert(s, "Voting period not ended")
       ELSE LET totalVotes == proposal.forVotes + proposal.againstVotes
                quorumVotes == (totalVotes * QUORUM_PERCENTAGE) \div 100
            IN IF ~(totalVotes >= quorumVotes)
               THEN Revert(s, "Quorum not reached")
               ELSE IF ~(proposal.forVotes > proposal.againstVotes)
               THEN Revert(s, "Proposal rejected")
               ELSE LET s1 == [s EXCEPT !.proposals[_proposalId].executed = TRUE]
                    IN Ok(s1, <<ProposalExecuted(_proposalId)>>, <<>>)

executeProposal(s, sender, timestamp, _proposalId) ==
    LET proposal == s.proposals[_proposalId]
    IN IF proposal.id = 0
       THEN Revert(s, "Proposal does not exist")
       ELSE IF proposal.executed
       THEN Revert(s, "Proposal already executed")
       ELSE IF proposal.canceled
       THEN Revert(s, "Proposal canceled")
       ELSE IF ~(timestamp > proposal.endTime)
       THEN Revert(s, "Voting period not ended")
       ELSE LET totalVotes == proposal.forVotes + proposal.againstVotes
                quorumVotes == (totalVotes * QUORUM_PERCENTAGE) \div 100
            IN IF ~(totalVotes >= quorumVotes)
               THEN Revert(s, "Quorum not reached")
               ELSE IF ~(proposal.forVotes > proposal.againstVotes)
               THEN Revert(s, "Proposal rejected")
               ELSE LET s1 == [s EXCEPT !.proposals[_proposalId].executed = TRUE]
                    IN Ok(s1, <<ProposalExecuted(_proposalId)>>, <<>>)

(* cancelProposal without the require on the caller *)
cancelProposal_AnyCaller(s, sender, _proposalId) ==
    LET proposal == s.proposals[_proposalId]
    IN IF proposal.id = 0
       THEN Revert(s, "Proposal does not exist")
       ELSE IF proposal.executed
       THEN Revert(s, "Proposal already executed")
       ELSE IF proposal.canceled
       THEN Revert(s, "Proposal already canceled")
       ELSE LET s1 == [s EXCEPT !.proposals[_proposalId].canceled = TRUE]
            IN Ok(s1, <<ProposalCanceled(_proposalId)>>, <<>>)

(* cancelProposal without the require on executed *)
cancelProposal_AfterExecution(s, sender, _proposalId) ==
    LET proposal == s.proposals[_proposalId]
    IN IF proposal.id = 0
       THEN Revert(s, "Proposal does not exist")
       ELSE IF proposal.canceled
       THEN Revert(s, "Proposal already canceled")
       ELSE IF ~(sender = proposal.proposer \/ sender = s.owner)
       THEN Revert(s, "Not authorized")
       ELSE LET s1 == [s EXCEPT !.proposals[_proposalId].canceled = TRUE]
            IN Ok(s1, <<ProposalCanceled(_proposalId)>>, <<>>)

cancelProposal(s, sender, _proposalId) ==
    LET proposal == s.proposals[_proposalId]
    IN IF proposal.id = 0
       THEN Revert(s, "Proposal does not exist")
       ELSE IF proposal.executed
       THEN Revert(s, "Proposal already executed")
       ELSE IF proposal.canceled
       THEN Revert(s, "Proposal already canceled")
       ELSE IF ~(sender = proposal.proposer \/ sender = s.owner)
       THEN Revert(s, "Not authorized")
       ELSE LET s1 == [s EXCEPT !.proposals[_proposalId].canceled = TRUE]
            IN Ok(s1, <<ProposalCanceled(_proposalId)>>, <<>>)

getProposal(s, _proposalId) ==
    LET proposal == s.proposals[_proposalId]
    IN IF proposal.id = 0
       THEN Revert(s, "Proposal does not exist")
       ELSE Ok(s, <<>>, <<proposal.id, proposal.proposer, proposal.description,
                          proposal.ipfsHash, proposal.forVotes,
                          proposal.againstVotes, proposal.startTime,
                          proposal.endTime, proposal.executed,
                          proposal.canceled>>)

getTotalProposals(s) == s.proposalIds

----------------------------------------------------------------------------
(* Web3Provider: the wallet provider (src/frontend/src/hooks/useWeb3.tsx)  *)

(* null, for an account and for a contract object *)
Null == 0

(* The provider as mounted, with checkConnection started; `wallet` is the  *)
(* account MetaMask exposes (Null if none), `socialMediaContract` the       *)
(* signer the contract object is bound to, `check` and `connect` the await  *)
(* at which checkConnection and connectWallet stand, `lookups` the number   *)
(* of contract lookups that accountsChanged has started and that have not   *)
(* settled.  chainId is left out: it is read by chainChanged only.          *)
Web3Mounted(wallet) ==
    [account |-> Null,
     socialMediaContract |-> Null,
     loading |-> FALSE,
     error |-> "null",
     wallet |-> wallet,
     check |-> "eth_accounts",
     connect |-> "idle",
     lookups |-> 0]

Web3Init == Web3Mounted(Null)

(* checkConnection up to its first await and past it: eth_accounts answers *)
checkConnectionAccounts(w) ==
    IF w.wallet # Null
    THEN [w EXCEPT !.account = w.wallet, !.check = "getContract"]
    ELSE [w EXCEPT !.check = "done"]

(* checkConnection: getSocialMediaContract answers with a contract *)
checkConnectionContract(w) ==
    [w EXCEPT !.socialMediaContract = w.wallet, !.check = "done"]

(* checkConnection: the lookup throws and the error is logged *)
checkConnectionFailed(w) == [w EXCEPT !.check = "done"]

(* The accountsChanged callback *)
accountsChanged(w, accounts) ==
    IF Len(accounts) = 0
    THEN [w EXCEPT !.account = Null, !.socialMediaContract = Null]
    ELSE [w EXCEPT !.account = accounts[1], !.lookups = @ + 1]

(* accountsChanged: the promise of getSocialMediaContract resolves *)
accountsChangedContract(w) ==
    [w EXCEPT !.socialMediaContract = w.wallet, !.lookups = @ - 1]

(* accountsChanged: a promise rejects and the error is logged *)
accountsChangedFailed(w) == [w EXCEPT !.lookups = @ - 1]

(* connectWallet up to the await of requestAccount *)
connectWallet(w) ==
    [w EXCEPT !.loading = TRUE, !.error = "null", !.connect = "requestAccount"]

(* connectWallet: requestAccount answers with an address *)
connectWalletAccount(w, address) ==
    [w EXCEPT !.account = address, !.connect = "getContract"]

(* connectWallet: requestAccount throws; catch and finally *)
connectWalletDenied(w) ==
    [w EXCEPT !.error = "User denied account access",
              !.loading = FALSE,
              !.connect = "idle"]

(* connectWallet: getSocialMediaContract answers with a contract; finally *)
connectWalletContract(w) ==
    [w EXCEPT !.socialMediaContract = w.wallet,
              !.loading = FALSE,
              !.connect = "idle"]

(* connectWallet: the lookup throws; catch and finally *)
connectWalletFailed(w) ==
    [w EXCEPT !.error =
                  "Failed to connect to the blockchain. Please try again.",
              !.loading = FALSE,
              !.connect = "idle"]

disconnectWallet(w) ==
    [w EXCEPT !.account = Null, !.socialMediaContract = Null]

----------------------------------------------------------------------------
(* Home: the feed (src/frontend/src/pages/Home.tsx) *)

postsPerPage == 5

FeedKeys == 0..(MaxFeedPosts + 1)

(* The storage of SocialMedia after n createPost of the deployer *)
FeedLedger(n) ==
    [SocialMediaInit EXCEPT
         !.postIds = n,
         !.posts = [k \in FeedKeys |->
                        IF 1 <= k /\ k <= n
                        THEN [id |-> k,
                              creator |-> Deployer,
                              ipfsHash |-> "cid1",
                              timestamp |-> DAY,
                              likeCount |-> 0,
                              commentCount |-> 0,
                              isActive |-> TRUE]
                        ELSE ZeroPost],
         !.profiles[Deployer] =
             [user |-> Deployer,
              username |-> "alice",
              bio |-> "bio",
              profilePictureIpfsHash |-> "cid1",
              followerCount |-> 0,
              followingCount |-> 0,
              isActive |-> TRUE]]

(* No fetchPosts is under way *)
NoCall == [active |-> FALSE, reset |-> FALSE, page |-> 1]

(* The state of Home as mounted; `call` is the fetchPosts that stands at   *)
(* its await, with its argument and the `page` of the render it was made in *)
HomeInit ==
    [posts |-> <<>>,
     loading |-> TRUE,
     error |-> "null",
     loadingMore |-> FALSE,
     hasMore |-> TRUE,
     page |-> 1,
     call |-> NoCall]

Max(a, b) == IF a >= b THEN a ELSE b

(* The for loop of fetchPosts: getPost(i) for i downwards while i > low    *)
(* and i > 0; a getPost that fails is logged and left out                   *)
RECURSIVE fetchedPosts(_, _, _)
fetchedPosts(s, i, low) ==
    IF ~(i > low /\ i > 0)
    THEN <<>>
    ELSE LET post == getPost(s, i)
         IN (IF post.ok
             THEN <<[id |-> post.ret[1],
                     creator |-> post.ret[2],
                     ipfsHash |-> post.ret[3],
                     timestamp |-> post.ret[4],
                     likeCount |-> post.ret[5],
                     commentCount |-> post.ret[6],
                     isActive |-> post.ret[7]]>>
             ELSE <<>>)
            \o fetchedPosts(s, i - 1, low)

(* fetchPosts(reset) up to the await of getTotalPosts *)
fetchPosts(h, contract, reset) ==
    IF contract = Null
    THEN h
    ELSE LET h1 == IF reset
                   THEN [h EXCEPT !.loading = TRUE, !.page = 1, !.posts = <<>>]
                   ELSE [h EXCEPT !.loadingMore = TRUE]
         IN [h1 EXCEPT !.call =
                 [active |-> TRUE, reset |-> reset, page |-> h.page]]

(* fetchPosts from the answer of getTotalPosts on storage s to its end *)
fetchPostsResumed(h, s) ==
    LET reset == h.call.reset
        totalPostsNumber == getTotalPosts(s)
        finally(x) == [x EXCEPT !.loading = FALSE,
                                !.loadingMore = FALSE,
                                !.call = NoCall]
    IN IF totalPostsNumber = 0
       THEN finally([h EXCEPT !.posts = <<>>, !.hasMore = FALSE])
       ELSE LET currentPage == IF reset THEN 1 ELSE h.call.page
                endIndex == totalPostsNumber
                startIndex ==
                    Max(1, endIndex - (currentPage * postsPerPage) + 1)
                h1 == [h EXCEPT !.hasMore = startIndex > 1]
                fetched ==
                    fetchedPosts(s,
                                 endIndex - ((currentPage - 1) * postsPerPage),
                                 endIndex - (currentPage * postsPerPage))
                h2 == IF reset
                      THEN [h1 EXCEPT !.posts = fetched]
                      ELSE [h1 EXCEPT !.posts = @ \o fetched]
                h3 == IF ~reset
                      THEN [h2 EXCEPT !.page = currentPage + 1]
                      ELSE h2
            IN finally(h3)

(* fetchPosts: getTotalPosts or the conversion of its answer throws; catch *)
(* and finally                                                              *)
fetchPostsFailed(h) ==
    [h EXCEPT !.error = "Failed to load posts",
              !.loading = FALSE,
              !.loadingMore = FALSE,
              !.call = NoCall]

----------------------------------------------------------------------------
(* The chain: one transaction at a time, in a total order *)

(* The time between the blocks of a run is the longest voting period on    *)
(* offer, so that a later block lies at the end of such a period and past  *)
(* the end of a shorter one.                                               *)
BlockInterval == MIN_VOTING_PERIOD + DAY

Genesis == DAY

Init ==
    /\ socialMedia = SocialMediaInit
    /\ governance = GovernanceInit
    /\ now = Genesis
    /\ receipt = [to |-> "", op |-> "constructor", sender |-> Deployer,
                  args |-> <<>>, ok |-> TRUE, err |-> "", ret |-> <<>>,
                  logs |-> <<>>]
    /\ createPostCalls = 0
    /\ home = HomeInit
    /\ web3 = Web3Init

Receipt(to, op, sender, args, r) ==
    [to |-> to, op |-> op, sender |-> sender, args |-> args,
     ok |-> r.ok, err |-> r.err, ret |-> r.ret, logs |-> r.logs]

(* The two contracts are separate deployments that share no storage.  A run *)
(* sends its transactions to one of them: a transaction to one contract is *)
(* taken while the other is as deployed, so that the reachable states are  *)
(* those of SocialMedia plus those of Governance, not their product.       *)
SocialMediaTx(op, sender, args, r) ==
    /\ governance = GovernanceInit
    /\ socialMedia' = r.st
    /\ receipt' = Receipt("SocialMedia", op, sender, args, r)
    /\ createPostCalls' = IF op = "createPost" /\ r.ok
                          THEN createPostCalls + 1
                          ELSE createPostCalls
    /\ UNCHANGED <<governance, now, home, web3>>

GovernanceTx(op, sender, args, r) ==
    /\ socialMedia = SocialMediaInit
    /\ governance' = r.st
    /\ receipt' = Receipt("Governance", op, sender, args, r)
    /\ UNCHANGED <<socialMedia, now, createPostCalls, home, web3>>

CreateProfileBy(sender, in) ==
    SocialMediaTx("createProfile", sender, in,
                  createProfile(socialMedia, sender, in[1], in[2], in[3]))

CreateProfile ==
    \E sender \in Accounts, in \in ProfileInputs : CreateProfileBy(sender, in)

UpdateProfileBy(sender, in) ==
    SocialMediaTx("updateProfile", sender, in,
                  updateProfile(socialMedia, sender, in[1], in[2], in[3]))

UpdateProfile ==
    \E sender \in Accounts, in \in ProfileInputs : UpdateProfileBy(sender, in)

CreatePostBy(sender, h) ==
    /\ socialMedia.postIds < MaxPosts
    /\ SocialMediaTx("createPost", sender, <<h>>,
                     createPost(socialMedia, sender, now, h))

CreatePost ==
    \E sender \in Accounts, h \in IpfsHashes : CreatePostBy(sender, h)

LikePostBy(sender, p) ==
    SocialMediaTx("likePost", sender, <<p>>, likePost(socialMedia, sender, p))

LikePost ==
    \E sender \in Accounts, p \in PostKeys : LikePostBy(sender, p)

UnlikePostBy(sender, p) ==
    SocialMediaTx("unlikePost", sender, <<p>>,
                  unlikePost(socialMedia, sender, p))

UnlikePost ==
    \E sender \in Accounts, p \in PostKeys : UnlikePostBy(sender, p)

AddCommentBy(sender, p, c) ==
    /\ socialMedia.commentIds < MaxComments
    /\ SocialMediaTx("addComment", sender, <<p, c>>,
                     addComment(socialMedia, sender, now, p, c))

AddComment ==
    \E sender \in Accounts, p \in PostKeys, c \in Contents :
        AddCommentBy(sender, p, c)

FollowUserBy(sender, target) ==
    SocialMediaTx("followUser", sender, <<target>>,
                  followUser(socialMedia, sender, target))

FollowUser ==
    \E sender \in Accounts, target \in Addresses : FollowUserBy(sender, target)

UnfollowUserBy(sender, target) ==
    SocialMediaTx("unfollowUser", sender, <<target>>,
                  unfollowUser(socialMedia, sender, target))

UnfollowUser ==
    \E sender \in Accounts, target \in Addresses :
        UnfollowUserBy(sender, target)

CreateProposalBy(sender, d, h, period) ==
    /\ governance.proposalIds < MaxProposals
    /\ GovernanceTx("createProposal", sender, <<d, h, period>>,
                    createProposal(governance, sender, now, d, h, period))

CreateProposal ==
    \E sender \in Accounts, d \in Descriptions, h \in IpfsHashes,
       period \in VotingPeriods :
        CreateProposalBy(sender, d, h, period)

CastVoteBy(sender, p, support) ==
    GovernanceTx("castVote", sender, <<p, support>>,
                 castVote(governance, sender, now, p, support))

CastVote ==
    \E sender \in Accounts, p \in ProposalKeys, support \in BOOLEAN :
        CastVoteBy(sender, p, support)

ExecuteProposalBy(sender, p) ==
    GovernanceTx("executeProposal", sender, <<p>>,
                 executeProposal(governance, sender, now, p))

ExecuteProposal ==
    \E sender \in Accounts, p \in ProposalKeys : ExecuteProposalBy(sender, p)

CancelProposalBy(sender, p) ==
    GovernanceTx("cancelProposal", sender, <<p>>,
                 cancelProposal(governance, sender, p))

CancelProposal ==
    \E sender \in Accounts, p \in ProposalKeys : CancelProposalBy(sender, p)

(* A later block: block.timestamp has moved on *)
Tick ==
    /\ now + BlockInterval <= Genesis + MaxTicks * BlockInterval
    /\ now' = now + BlockInterval
    /\ UNCHANGED <<socialMedia, governance, receipt, createPostCalls,
                   home, web3>>

SocialMediaNext ==
    \/ CreateProfile
    \/ UpdateProfile
    \/ CreatePost
    \/ LikePost
    \/ UnlikePost
    \/ AddComment
    \/ FollowUser
    \/ UnfollowUser

GovernanceNext ==
    \/ CreateProposal
    \/ CastVote
    \/ ExecuteProposal
    \/ CancelProposal

Next ==
    \/ Tick
    \/ SocialMediaNext
    \/ GovernanceNext

Spec == Init /\ [][Next]_vars

----------------------------------------------------------------------------
(* Web3Provider: the handlers and the settling of their awaits, in any     *)
(* order                                                                    *)

Web3Step(w) ==
    /\ web3' = w
    /\ UNCHANGED <<socialMedia, governance, now, receipt, createPostCalls,
                   home>>

CheckConnectionAccounts ==
    /\ web3.check = "eth_accounts"
    /\ Web3Step(checkConnectionAccounts(web3))

CheckConnectionContract ==
    /\ web3.check = "getContract"
    /\ web3.wallet # Null
    /\ Web3Step(checkConnectionContract(web3))

CheckConnectionFailed ==
    /\ web3.check = "getContract"
    /\ Web3Step(checkConnectionFailed(web3))

(* MetaMask exposes another account, or none, and calls accountsChanged *)
AccountsChanged ==
    \E a \in {Null} \cup Accounts :
        /\ a # web3.wallet
        /\ a # Null => web3.lookups < MaxLookups
        /\ Web3Step(accountsChanged([web3 EXCEPT !.wallet = a],
                                     IF a = Null THEN <<>> ELSE <<a>>))

AccountsChangedContract ==
    /\ web3.lookups > 0
    /\ web3.wallet # Null
    /\ Web3Step(accountsChangedContract(web3))

AccountsChangedFailed ==
    /\ web3.lookups > 0
    /\ Web3Step(accountsChangedFailed(web3))

(* The Connect Wallet button: shown while not connected, disabled while    *)
(* loading                                                                  *)
ConnectWallet ==
    /\ web3.account = Null
    /\ ~web3.loading
    /\ Web3Step(connectWallet(web3))

(* eth_requestAccounts answers with the exposed account, or with the one   *)
(* the user approves if none is exposed                                     *)
ConnectWalletAccount ==
    /\ web3.connect = "requestAccount"
    /\ \E a \in Accounts :
           /\ web3.wallet # Null => a = web3.wallet
           /\ Web3Step(connectWalletAccount([web3 EXCEPT !.wallet = a], a))

ConnectWalletDenied ==
    /\ web3.connect = "requestAccount"
    /\ web3.wallet = Null
    /\ Web3Step(connectWalletDenied(web3))

ConnectWalletContract ==
    /\ web3.connect = "getContract"
    /\ web3.wallet # Null
    /\ Web3Step(connectWalletContract(web3))

ConnectWalletFailed ==
    /\ web3.connect = "getContract"
    /\ Web3Step(connectWalletFailed(web3))

(* The Disconnect button: shown while connected *)
DisconnectWallet ==
    /\ web3.account # Null
    /\ Web3Step(disconnectWallet(web3))

Web3Next ==
    \/ CheckConnectionAccounts
    \/ CheckConnectionContract
    \/ CheckConnectionFailed
    \/ AccountsChanged
    \/ AccountsChangedContract
    \/ AccountsChangedFailed
    \/ ConnectWallet
    \/ ConnectWalletAccount
    \/ ConnectWalletDenied
    \/ ConnectWalletContract
    \/ ConnectWalletFailed
    \/ DisconnectWallet

(* The page is opened with any account, or none, exposed by MetaMask *)
Web3SpecInit ==
    /\ socialMedia = SocialMediaInit
    /\ governance = GovernanceInit
    /\ now = Genesis
    /\ receipt = [to |-> "", op |-> "constructor", sender |-> Deployer,
                  args |-> <<>>, ok |-> TRUE, err |-> "", ret |-> <<>>,
                  logs |-> <<>>]
    /\ createPostCalls = 0
    /\ home = HomeInit
    /\ \E wallet \in {Null} \cup Accounts : web3 = Web3Mounted(wallet)

Web3Spec == Web3SpecInit /\ [][Web3Next]_vars

----------------------------------------------------------------------------
(* Home: the handlers of the feed over a ledger that does not change *)

(* The provider once connectWallet of account a is through *)
Web3Connected(a) ==
    [Web3Mounted(a) EXCEPT !.account = a,
                           !.socialMediaContract = a,
                           !.check = "done"]

HomeStep(h) ==
    /\ home' = h
    /\ UNCHANGED <<socialMedia, governance, now, receipt, createPostCalls,
                   web3>>

(* fetchPosts(true): on mount, after a post was created, on refresh and on *)
(* Try Again                                                                *)
FetchPosts ==
    /\ ~home.call.active
    /\ web3.socialMediaContract # Null
    /\ HomeStep(fetchPosts(home, web3.socialMediaContract, TRUE))

(* The Load More button: shown under a list that is not empty while        *)
(* hasMore, disabled while loadingMore                                      *)
LoadMorePosts ==
    /\ ~home.call.active
    /\ ~home.loading
    /\ home.error = "null"
    /\ Len(home.posts) # 0
    /\ home.hasMore
    /\ ~home.loadingMore
    /\ HomeStep(fetchPosts(home, web3.socialMediaContract, FALSE))

FetchPostsResumed ==
    /\ home.call.active
    /\ HomeStep(fetchPostsResumed(home, socialMedia))

FetchPostsFailed ==
    /\ home.call.active
    /\ HomeStep(fetchPostsFailed(home))

HomeNext ==
    \/ FetchPosts
    \/ LoadMorePosts
    \/ FetchPostsResumed
    \/ FetchPostsFailed

(* The page is opened by the deployer, connected, on a ledger of any       *)
(* number of posts                                                          *)
HomeSpecInit ==
    /\ \E n \in 0..MaxFeedPosts :
           /\ socialMedia = FeedLedger(n)
           /\ createPostCalls = n
    /\ governance = GovernanceInit
    /\ now = Genesis
    /\ receipt = [to |-> "", op |-> "constructor", sender |-> Deployer,
                  args |-> <<>>, ok |-> TRUE, err |-> "", ret |-> <<>>,
                  logs |-> <<>>]
    /\ home = HomeInit
    /\ web3 = Web3Connected(Deployer)

HomeSpec == HomeSpecInit /\ [][HomeNext]_vars

----------------------------------------------------------------------------
(* Vocabulary of the properties *)

HasProfile(s, a) == s.profiles[a].user # ZeroAddress

PostExists(s, p) == s.posts[p].id # 0

Likers(s, p) == {a \in Addresses : hasLiked(s, a, p)}

Followers(s, a) == {b \in Addresses : isFollowing(s, b, a)}

Followees(s, a) == {b \in Addresses : isFollowing(s, a, b)}

(* The error of the specification's taxonomy that a revert message stands for *)
ErrorKind(msg) ==
    CASE msg = "Profile already exists" -> "AlreadyExists"
      [] msg \in {"Profile does not exist", "Post does not exist",
                  "Your profile does not exist",
                  "Target profile does not exist",
                  "Proposal does not exist"} -> "NotFound"
      [] msg \in {"Profile is not active", "Post is not active",
                  "Your profile is not active",
                  "Target profile is not active"} -> "Inactive"
      [] msg = "Already liked this post" -> "AlreadyLiked"
      [] msg = "Haven't liked this post" -> "NotLiked"
      [] msg = "Cannot follow yourself" -> "SelfReference"
      [] msg = "Already following this user" -> "AlreadyFollowing"
      [] msg = "Not following this user" -> "NotFollowing"
      [] msg = "Already voted" -> "AlreadyVoted"
      [] msg = "Not authorized" -> "Unauthorized"
      [] msg = "Voting period too short" -> "InvalidArgument"
      [] msg = "Voting period ended" -> "PeriodElapsed"
      [] msg = "Voting period not ended" -> "PeriodNotElapsed"
      [] msg = "Quorum not reached" -> "QuorumNotMet"
      [] msg = "Proposal rejected" -> "ProposalRejected"
      [] OTHER -> msg

Sent(op) == receipt.to = "SocialMedia" /\ receipt.op = op

----------------------------------------------------------------------------
(* C1: in every reachable state the likeCount of every existing post is the *)
(* number of accounts that have liked it.                                   *)
LikeCountIsLikers ==
    \A p \in PostKeys :
        PostExists(socialMedia, p) =>
            socialMedia.posts[p].likeCount = Cardinality(Likers(socialMedia, p))

(* Two accounts liked a post and one of them has taken its like back *)
LikeCountAfterUnlike ==
    /\ Sent("unlikePost")
    /\ receipt.ok
    /\ socialMedia.posts[receipt.args[1]].likeCount = 1

(* C2: in every reachable state the followerCount of every account with a   *)
(* profile is the number of accounts following it, and its followingCount   *)
(* the number of accounts it follows.                                       *)
FollowCountsAreEdges ==
    \A a \in Addresses :
        HasProfile(socialMedia, a) =>
            /\ socialMedia.profiles[a].followerCount =
                   Cardinality(Followers(socialMedia, a))
            /\ socialMedia.profiles[a].followingCount =
                   Cardinality(Followees(socialMedia, a))

(* Two accounts followed each other and one of them has unfollowed *)
FollowCountsAfterUnfollow ==
    /\ Sent("unfollowUser")
    /\ receipt.ok
    /\ socialMedia.profiles[receipt.sender].followerCount = 1
    /\ socialMedia.profiles[receipt.sender].followingCount = 0

CreateProfileAtMostOnce ==
    [][\A a \in Accounts :
           HasProfile(socialMedia, a) =>
               /\ HasProfile(socialMedia', a)
               /\ \A in \in ProfileInputs :
                      CreateProfileBy(a, in) =>
                          /\ ~receipt'.ok
                          /\ ErrorKind(receipt'.err) = "AlreadyExists"
                          /\ socialMedia'.profiles[a] = socialMedia.profiles[a]]_vars

(* A second createProfile, with other texts, has failed *)
SecondCreateProfileFailed ==
    /\ Sent("createProfile")
    /\ ~receipt.ok
    /\ receipt.err = "Profile already exists"
    /\ socialMedia.profiles[receipt.sender].username # receipt.args[1]

(* C5: likePost by an account that has liked the post fails with            *)
(* AlreadyLiked and leaves likeCount; two likePost in a row by one account  *)
(* raise likeCount by 1: the first succeeds, the second fails.              *)
SecondLikeFails ==
    \A a \in Accounts, p \in PostKeys :
        LET r1 == likePost(socialMedia, a, p)
        IN /\ hasLiked(socialMedia, a, p) =>
                  /\ ~r1.ok
                  /\ ErrorKind(r1.err) = "AlreadyLiked"
                  /\ r1.st.posts[p].likeCount = socialMedia.posts[p].likeCount
           /\ r1.ok =>
                  LET r2 == likePost(r1.st, a, p)
                  IN /\ ~r2.ok
                     /\ ErrorKind(r2.err) = "AlreadyLiked"
                     /\ r2.st.posts[p].likeCount =
                            socialMedia.posts[p].likeCount + 1

(* The second likePost of an account has failed *)
SecondLikeFailed ==
    /\ Sent("likePost")
    /\ ~receipt.ok
    /\ receipt.err = "Already liked this post"
    /\ socialMedia.posts[receipt.args[1]].likeCount = 1

(* C6: after a successful followUser(b) by a, a second followUser(b) by a   *)
(* fails with AlreadyFollowing, and unfollowUser(b) by a succeeds and puts  *)
(* the edge, followerCount(b) and followingCount(a) back to what they were  *)
(* before the follow.                                                       *)
FollowUnfollowRoundTrip ==
    \A a \in Accounts, b \in Addresses :
        LET r1 == followUser(socialMedia, a, b)
        IN r1.ok =>
               LET r2 == followUser(r1.st, a, b)
                   r3 == unfollowUser(r2.st, a, b)
               IN /\ isFollowing(r1.st, a, b)
                  /\ ~r2.ok
                  /\ ErrorKind(r2.err) = "AlreadyFollowing"
                  /\ r2.st = r1.st
                  /\ r3.ok
                  /\ isFollowing(r3.st, a, b) = isFollowing(socialMedia, a, b)
                  /\ r3.st.profiles[b].followerCount =
                         socialMedia.profiles[b].followerCount
                  /\ r3.st.profiles[a].followingCount =
                         socialMedia.profiles[a].followingCount
                  /\ (Followers(socialMedia, b) = {} =>
                         r3.st.profiles[b].followerCount = 0)

(* An account has unfollowed the only account it followed *)
UnfollowedBackToZero ==
    /\ Sent("unfollowUser")
    /\ receipt.ok
    /\ ~isFollowing(socialMedia, receipt.sender, receipt.args[1])
    /\ socialMedia.profiles[receipt.args[1]].followerCount = 0

(* C7: likePost by an account without a profile, on a stored post it has    *)
(* not liked, succeeds: the edge is set and likeCount goes up by 1.         *)
LikeNeedsNoProfile ==
    \A a \in Accounts, p \in PostKeys :
        (/\ ~HasProfile(socialMedia, a)
         /\ PostExists(socialMedia, p)
         /\ ~hasLiked(socialMedia, a, p)) =>
            LET r == likePost(socialMedia, a, p)
            IN /\ r.ok
               /\ hasLiked(r.st, a, p)
               /\ r.st.posts[p].likeCount = socialMedia.posts[p].likeCount + 1

(* An account without a profile has liked a post *)
LikedWithoutProfile ==
    /\ Sent("likePost")
    /\ receipt.ok
    /\ ~HasProfile(socialMedia, receipt.sender)
    /\ hasLiked(socialMedia, receipt.sender, receipt.args[1])

(* C8 as stated: a successful createPost returns the id of the new post,    *)
(* and getPost of the returned id yields the caller, the reference, no      *)
(* likes, no comments and active.                                           *)
CreatePostReturnsId ==
    (Sent("createPost") /\ receipt.ok) =>
        /\ Len(receipt.ret) = 1
        /\ LET g == getPost(socialMedia, receipt.ret[1])
           IN /\ g.ok
              /\ g.ret[2] = receipt.sender
              /\ g.ret[3] = receipt.args[1]
              /\ g.ret[5] = 0
              /\ g.ret[6] = 0
              /\ g.ret[7] = TRUE

(* C8 as amended: a successful createPost returns nothing; the id of the    *)
(* new post is getTotalPosts() right after it (the id the PostCreated event *)
(* carries), and getPost of that id yields that id, the caller, the         *)
(* reference, no likes, no comments and active.                             *)
CreatePostThenGetPost ==
    (Sent("createPost") /\ receipt.ok) =>
        LET id == getTotalPosts(socialMedia)
            g == getPost(socialMedia, id)
        IN /\ receipt.ret = <<>>
           /\ receipt.logs = <<PostCreated(id, receipt.sender, receipt.args[1])>>
           /\ g.ok
           /\ g.ret[1] = id
           /\ g.ret[2] = receipt.sender
           /\ g.ret[3] = receipt.args[1]
           /\ g.ret[5] = 0
           /\ g.ret[6] = 0
           /\ g.ret[7] = TRUE

(* createPost has succeeded *)
PostJustCreated ==
    /\ Sent("createPost")
    /\ receipt.ok
    /\ getTotalPosts(socialMedia) = 1

(* C9: unfollowUser fails with NotFollowing and with nothing else: where    *)
(* isFollowing(caller, target) holds it succeeds, clears the edge and       *)
(* lowers the caller's followingCount and the target's followerCount by 1.  *)
UnfollowFailsOnlyNotFollowing ==
    \A a \in Accounts, b \in Addresses :
        LET r == unfollowUser(socialMedia, a, b)
        IN IF isFollowing(socialMedia, a, b)
           THEN /\ r.ok
                /\ ~isFollowing(r.st, a, b)
                /\ socialMedia.profiles[a].followingCount >= 1
                /\ socialMedia.profiles[b].followerCount >= 1
                /\ r.st.profiles[a].followingCount =
                       socialMedia.profiles[a].followingCount - 1
                /\ r.st.profiles[b].followerCount =
                       socialMedia.profiles[b].followerCount - 1
           ELSE /\ ~r.ok
                /\ ErrorKind(r.err) = "NotFollowing"

(* unfollowUser has succeeded and has emitted Unfollowed *)
UnfollowSucceeded ==
    /\ Sent("unfollowUser")
    /\ receipt.ok
    /\ receipt.logs = <<Unfollowed(receipt.sender, receipt.args[1])>>

(* C10: likeCount never goes below 0: where hasLiked(caller, p) holds,      *)
(* likeCount is at least 1 and unlikePost succeeds and lowers it by 1;      *)
(* where the edge is false on a stored post it fails with NotLiked and      *)
(* likeCount stays.                                                         *)
UnlikeNeverBelowZero ==
    \A a \in Accounts, p \in PostKeys :
        LET r == unlikePost(socialMedia, a, p)
        IN /\ socialMedia.posts[p].likeCount >= 0
           /\ hasLiked(socialMedia, a, p) =>
                  /\ socialMedia.posts[p].likeCount >= 1
                  /\ r.ok
                  /\ r.st.posts[p].likeCount =
                         socialMedia.posts[p].likeCount - 1
           /\ (PostExists(socialMedia, p) /\ ~hasLiked(socialMedia, a, p)) =>
                  /\ ~r.ok
                  /\ ErrorKind(r.err) = "NotLiked"
                  /\ r.st.posts[p].likeCount = socialMedia.posts[p].likeCount

(* The only like of a post has been taken back *)
UnlikedBackToZero ==
    /\ Sent("unlikePost")
    /\ receipt.ok
    /\ socialMedia.posts[receipt.args[1]].likeCount = 0

(* C11: createPost by an account without a profile fails with NotFound and  *)
(* stores no post; in every reachable state the creator of every stored     *)
(* post and of every stored comment has a profile.                          *)
CreatorsHaveProfiles ==
    /\ \A a \in Accounts, h \in IpfsHashes :
           ~HasProfile(socialMedia, a) =>
               LET r == createPost(socialMedia, a, now, h)
               IN /\ ~r.ok
                  /\ ErrorKind(r.err) = "NotFound"
                  /\ r.st.posts = socialMedia.posts
                  /\ r.st.postIds = socialMedia.postIds
    /\ \A k \in PostKeys :
           PostExists(socialMedia, k) =>
               HasProfile(socialMedia, socialMedia.posts[k].creator)
    /\ \A k \in CommentKeys :
           socialMedia.comments[k].id # 0 =>
               HasProfile(socialMedia, socialMedia.comments[k].creator)

(* createPost by an account without a profile has failed while another      *)
(* account has a profile                                                    *)
CreatePostWithoutProfileFailed ==
    /\ Sent("createPost")
    /\ ~receipt.ok
    /\ receipt.err = "Profile does not exist"
    /\ \E b \in Accounts : HasProfile(socialMedia, b)
    /\ socialMedia.postIds = 0

CommentsOf(s, p) ==
    {k \in CommentKeys : s.comments[k].id # 0 /\ s.comments[k].postId = p}

RECURSIVE SumCommentCount(_, _)
SumCommentCount(s, keys) ==
    IF keys = {}
    THEN 0
    ELSE LET k == CHOOSE x \in keys : TRUE
         IN s.posts[k].commentCount + SumCommentCount(s, keys \ {k})

(* C12: in every reachable state the commentCount of every post is the      *)
(* number of stored comments on it, every stored comment is on a stored     *)
(* post, and the commentCounts add up to the comment counter; addComment    *)
(* on an unknown post or by an account without a profile fails with         *)
(* NotFound and takes no comment id.                                        *)
CommentCountIsComments ==
    /\ \A p \in PostKeys :
           socialMedia.posts[p].commentCount =
               Cardinality(CommentsOf(socialMedia, p))
    /\ \A k \in CommentKeys :
           socialMedia.comments[k].id # 0 =>
               PostExists(socialMedia, socialMedia.comments[k].postId)
    /\ SumCommentCount(socialMedia, PostKeys) = socialMedia.commentIds
    /\ \A a \in Accounts, p \in PostKeys, c \in Contents :
           (~PostExists(socialMedia, p) \/ ~HasProfile(socialMedia, a)) =>
               LET r == addComment(socialMedia, a, now, p, c)
               IN /\ ~r.ok
                  /\ ErrorKind(r.err) = "NotFound"
                  /\ r.st.commentIds = socialMedia.commentIds
                  /\ r.st.comments = socialMedia.comments

(* A comment has been stored on a post *)
CommentStored ==
    /\ Sent("addComment")
    /\ receipt.ok
    /\ socialMedia.commentIds = 1
    /\ socialMedia.posts[receipt.args[1]].commentCount = 1

CountersCountSuccesses ==
    [][/\ socialMedia'.postIds =
              socialMedia.postIds
                  + (IF CreatePost /\ receipt'.ok THEN 1 ELSE 0)
       /\ socialMedia'.commentIds =
              socialMedia.commentIds
                  + (IF AddComment /\ receipt'.ok THEN 1 ELSE 0)]_vars

(* addComment has succeeded and the post counter is where createPost left it *)
CommentLeftPostCounter ==
    /\ Sent("addComment")
    /\ receipt.ok
    /\ createPostCalls = 1
    /\ socialMedia.postIds = 1
    /\ socialMedia.commentIds = 1

(* C15: in every reachable state an updateProfile by A that succeeds sets   *)
(* the username, bio and picture reference of A's profile to its arguments  *)
(* and changes nothing else: A's user, counts and active flag, every other  *)
(* profile, the posts, comments, like and follow edges and both counters    *)
(* stay; updateProfile by an account without a profile fails with NotFound. *)
UpdateProfileTouchesOwnTexts ==
    \A a \in Accounts, in \in ProfileInputs :
        LET r == updateProfile(socialMedia, a, in[1], in[2], in[3])
            old == socialMedia.profiles[a]
            new == r.st.profiles[a]
        IN /\ r.ok =>
                  /\ new.username = in[1]
                  /\ new.bio = in[2]
                  /\ new.profilePictureIpfsHash = in[3]
                  /\ new.user = old.user
                  /\ new.followerCount = old.followerCount
                  /\ new.followingCount = old.followingCount
                  /\ new.isActive = old.isActive
                  /\ \A b \in Addresses \ {a} :
                         r.st.profiles[b] = socialMedia.profiles[b]
                  /\ r.st.posts = socialMedia.posts
                  /\ r.st.comments = socialMedia.comments
                  /\ r.st.postLikes = socialMedia.postLikes
                  /\ r.st.follows = socialMedia.follows
                  /\ r.st.postIds = socialMedia.postIds
                  /\ r.st.commentIds = socialMedia.commentIds
           /\ ~HasProfile(socialMedia, a) =>
                  /\ ~r.ok
                  /\ ErrorKind(r.err) = "NotFound"
                  /\ r.st = socialMedia

(* An account with a follower has updated its profile to other texts *)
UpdatedProfileKeptFollower ==
    /\ Sent("updateProfile")
    /\ receipt.ok
    /\ socialMedia.profiles[receipt.sender].followerCount = 1
    /\ socialMedia.profiles[receipt.sender].username = "bob"
    /\ \E b \in Accounts : socialMedia.profiles[b].username = "alice"

(* C16: nothing is deleted: on every step a profile that getProfile finds   *)
(* is found afterwards, a post that getPost finds is found afterwards with  *)
(* the same id, creator, content reference and creation time, and a stored  *)
(* comment stays stored.                                                    *)
NothingIsDeleted ==
    [][/\ \A a \in Addresses :
              getProfile(socialMedia, a).ok => getProfile(socialMedia', a).ok
       /\ \A k \in PostKeys :
              LET old == getPost(socialMedia, k)
                  new == getPost(socialMedia', k)
              IN old.ok =>
                     /\ new.ok
                     /\ \A i \in 1..4 : new.ret[i] = old.ret[i]
       /\ \A k \in CommentKeys :
              socialMedia.comments[k].id # 0 =>
                  socialMedia'.comments[k].id # 0]_vars

(* A post that has a comment has been liked by an account other than its   *)
(* creator after time has passed                                            *)
OldPostLiked ==
    /\ Sent("likePost")
    /\ receipt.ok
    /\ getPost(socialMedia, 1).ok
    /\ getPost(socialMedia, 1).ret[2] # receipt.sender
    /\ getPost(socialMedia, 1).ret[4] < now
    /\ socialMedia.comments[1].id # 0

QueriesAnswerFalseByDefault(s) ==
    /\ \A a \in Addresses, k \in PostKeys :
           /\ hasLiked(s, a, k) \in BOOLEAN
           /\ ~PostExists(s, k) => hasLiked(s, a, k) = FALSE
    /\ \A a \in Addresses, b \in Addresses :
           isFollowing(s, a, b) \in BOOLEAN

(* C17: hasLiked and isFollowing answer with a Boolean for every account    *)
(* and every id; hasLiked(A, id) is false for every id that is not a stored *)
(* post; isFollowing(A, B) is false at deployment and turns true only on a  *)
(* followUser(B) by A that succeeds, so it is false for every pair where A  *)
(* never followed B.                                                        *)
QueriesNeverFail ==
    /\ QueriesAnswerFalseByDefault(socialMedia)
    /\ \A a \in Addresses, b \in Addresses :
           isFollowing(socialMedia, a, b) = FALSE
    /\ [][/\ QueriesAnswerFalseByDefault(socialMedia')
          /\ \A a \in Addresses, b \in Addresses :
                 (~isFollowing(socialMedia, a, b)
                      /\ isFollowing(socialMedia', a, b)) =>
                     /\ a \in Accounts
                     /\ FollowUserBy(a, b)
                     /\ receipt'.ok]_vars

(* One account follows another that does not follow back and has liked the *)
(* one stored post; the queries on the reverse pair and on the id after    *)
(* the last post answer false                                               *)
OneWayFollowAndLike ==
    \E a \in Accounts, b \in Accounts :
        /\ isFollowing(socialMedia, a, b)
        /\ ~isFollowing(socialMedia, b, a)
        /\ hasLiked(socialMedia, a, 1)
        /\ ~hasLiked(socialMedia, a, 2)
        /\ ~hasLiked(socialMedia, b, 1)

(* The event the functions of SocialMedia are to emit for the transaction  *)
(* of a receipt, given the storage after it                                 *)
EventOf(rc, s) ==
    CASE rc.op = "createProfile" -> ProfileCreated(rc.sender, rc.args[1])
      [] rc.op = "updateProfile" -> ProfileUpdated(rc.sender, rc.args[1])
      [] rc.op = "createPost" -> PostCreated(s.postIds, rc.sender, rc.args[1])
      [] rc.op = "likePost" -> PostLiked(rc.args[1], rc.sender)
      [] rc.op = "unlikePost" -> PostUnliked(rc.args[1], rc.sender)
      [] rc.op = "addComment" ->
             CommentAdded(s.commentIds, rc.args[1], rc.sender)
      [] rc.op = "followUser" -> Followed(rc.sender, rc.args[1])
      [] rc.op = "unfollowUser" -> Unfollowed(rc.sender, rc.args[1])

(* C18: the latest transaction to SocialMedia has emitted exactly one       *)
(* event, of the kind of its function and with the caller and the id it     *)
(* acted on, if it succeeded and none if it failed; getPost, getProfile     *)
(* emit none.  The log therefore grows by one per successful mutating       *)
(* transaction and by nothing else.                                         *)
OneEventPerSuccess ==
    /\ receipt.to = "SocialMedia" =>
           IF receipt.ok
           THEN /\ Len(receipt.logs) = 1
                /\ receipt.logs[1] = EventOf(receipt, socialMedia)
           ELSE receipt.logs = <<>>
    /\ \A k \in PostKeys : getPost(socialMedia, k).logs = <<>>
    /\ \A a \in Addresses : getProfile(socialMedia, a).logs = <<>>

(* unlikePost has succeeded and emitted PostUnliked with the caller *)
UnlikeEmittedPostUnliked ==
    /\ Sent("unlikePost")
    /\ receipt.ok
    /\ receipt.logs = <<PostUnliked(1, receipt.sender)>>

(* C19: on every step, with A the sender of the transaction, the like      *)
(* edges, the outgoing follow edges, the followingCount and the username,   *)
(* bio and picture reference of every other account stay as they were, and  *)
(* every post, comment, proposal and vote that the step stores has A as its *)
(* creator, proposer or voter.                                              *)
MutationsBelongToSender ==
    [][LET A == receipt'.sender
       IN /\ \A b \in Addresses \ {A} :
                 /\ socialMedia'.postLikes[b] = socialMedia.postLikes[b]
                 /\ socialMedia'.follows[b] = socialMedia.follows[b]
                 /\ socialMedia'.profiles[b].followingCount =
                        socialMedia.profiles[b].followingCount
                 /\ socialMedia'.profiles[b].username =
                        socialMedia.profiles[b].username
                 /\ socialMedia'.profiles[b].bio = socialMedia.profiles[b].bio
                 /\ socialMedia'.profiles[b].profilePictureIpfsHash =
                        socialMedia.profiles[b].profilePictureIpfsHash
          /\ \A k \in PostKeys :
                 (socialMedia.posts[k].id = 0 /\ socialMedia'.posts[k].id # 0)
                     => socialMedia'.posts[k].creator = A
          /\ \A k \in CommentKeys :
                 (socialMedia.comments[k].id = 0
                      /\ socialMedia'.comments[k].id # 0)
                     => socialMedia'.comments[k].creator = A
          /\ \A k \in ProposalKeys :
                 /\ (governance.proposals[k].id = 0
                         /\ governance'.proposals[k].id # 0)
                        => governance'.proposals[k].proposer = A
                 /\ \A v \in Addresses :
                        (~governance.hasVoted[k][v]
                             /\ governance'.hasVoted[k][v]) => v = A]_vars

(* An account has followed another that has texts of its own, a like and   *)
(* follows nobody                                                           *)
FollowedLeftTargetAlone ==
    /\ Sent("followUser")
    /\ receipt.ok
    /\ LET B == receipt.args[1]
       IN /\ socialMedia.profiles[B].followerCount = 1
          /\ socialMedia.profiles[B].followingCount = 0
          /\ socialMedia.profiles[B].username = "alice"
          /\ socialMedia.postLikes[B][1]
          /\ ~socialMedia.postLikes[receipt.sender][1]

(* C20 as stated: in every reachable state a castVote by an account that    *)
(* has voted on the proposal fails with AlreadyVoted, whatever the support  *)
(* value, and leaves forVotes and againstVotes.                             *)
SecondVoteFailsAlreadyVoted ==
    \A v \in Accounts, p \in ProposalKeys, support \in BOOLEAN :
        governance.hasVoted[p][v] =>
            LET r == castVote(governance, v, now, p, support)
            IN /\ ~r.ok
               /\ ErrorKind(r.err) = "AlreadyVoted"
               /\ r.st.proposals[p].forVotes = governance.proposals[p].forVotes
               /\ r.st.proposals[p].againstVotes =
                      governance.proposals[p].againstVotes

(* C20: a vote once recorded stays recorded, a castVote that succeeds is by *)
(* an account that had not voted on the proposal, and after every step a    *)
(* castVote by an account that has voted fails, whatever the support value, *)
(* and leaves forVotes and againstVotes: with AlreadyVoted while the        *)
(* proposal is neither executed nor canceled and its end time has not       *)
(* passed, and with the failure of the executed, canceled or ended proposal *)
(* otherwise.                                                               *)
SecondVoteFails ==
    [][\A v \in Accounts, p \in ProposalKeys :
           /\ governance.hasVoted[p][v] => governance'.hasVoted[p][v]
           /\ \A support \in BOOLEAN :
                  /\ (CastVoteBy(v, p, support) /\ receipt'.ok) =>
                         ~governance.hasVoted[p][v]
                  /\ governance'.hasVoted[p][v] =>
                         LET r == castVote(governance', v, now', p, support)
                             proposal == governance'.proposals[p]
                         IN /\ ~r.ok
                            /\ r.st = governance'
                            /\ r.err =
                                   IF proposal.executed
                                   THEN "Proposal already executed"
                                   ELSE IF proposal.canceled
                                   THEN "Proposal canceled"
                                   ELSE IF now' > proposal.endTime
                                   THEN "Voting period ended"
                                   ELSE "Already voted"]_vars

(* A second castVote by the same account on the same proposal has failed    *)
(* after the end time with the votes as the first one left them             *)
SecondVoteAfterEndFailed ==
    /\ receipt.to = "Governance"
    /\ receipt.op = "castVote"
    /\ ~receipt.ok
    /\ ErrorKind(receipt.err) = "PeriodElapsed"
    /\ governance.hasVoted[receipt.args[1]][receipt.sender]
    /\ governance.proposals[receipt.args[1]].forVotes
           + governance.proposals[receipt.args[1]].againstVotes = 1

GovernanceSent(op) == receipt.to = "Governance" /\ receipt.op = op

ProposalExists(s, k) == s.proposals[k].id # 0

(* C21: in every reachable state createProposal with a voting period below *)
(* MIN_VOTING_PERIOD fails with InvalidArgument and takes no proposal id,   *)
(* createProposal with any other period stores a proposal with no votes,    *)
(* not executed and not canceled, and every stored proposal has             *)
(* endTime - startTime >= MIN_VOTING_PERIOD.                                *)
VotingPeriodAtLeastMinimum ==
    /\ \A a \in Accounts, d \in Descriptions, h \in IpfsHashes,
          period \in VotingPeriods :
           LET r == createProposal(governance, a, now, d, h, period)
               new == r.st.proposals[r.st.proposalIds]
           IN IF period < MIN_VOTING_PERIOD
              THEN /\ ~r.ok
                   /\ ErrorKind(r.err) = "InvalidArgument"
                   /\ r.st.proposalIds = governance.proposalIds
                   /\ r.st.proposals = governance.proposals
              ELSE /\ r.ok
                   /\ new.forVotes = 0
                   /\ new.againstVotes = 0
                   /\ new.executed = FALSE
                   /\ new.canceled = FALSE
    /\ \A k \in ProposalKeys :
           ProposalExists(governance, k) =>
               governance.proposals[k].endTime
                   - governance.proposals[k].startTime >= MIN_VOTING_PERIOD

(* createProposal with a period one second below the minimum has failed *)
ShortVotingPeriodFailed ==
    /\ GovernanceSent("createProposal")
    /\ ~receipt.ok
    /\ receipt.args[3] = MIN_VOTING_PERIOD - 1
    /\ ErrorKind(receipt.err) = "InvalidArgument"
    /\ getTotalProposals(governance) = 0

(* Every transaction that can be sent to Governance in storage s at block  *)
(* time t, with its outcome                                                 *)
GovernanceCalls(s, t) ==
    {[op |-> "createProposal", sender |-> a, args |-> <<d, h, period>>,
      r |-> createProposal(s, a, t, d, h, period)] :
         a \in Accounts, d \in Descriptions, h \in IpfsHashes,
         period \in VotingPeriods}
    \cup {[op |-> "castVote", sender |-> a, args |-> <<p, support>>,
           r |-> castVote(s, a, t, p, support)] :
              a \in Accounts, p \in ProposalKeys, support \in BOOLEAN}
    \cup {[op |-> "executeProposal", sender |-> a, args |-> <<p>>,
           r |-> executeProposal(s, a, t, p)] :
              a \in Accounts, p \in ProposalKeys}
    \cup {[op |-> "cancelProposal", sender |-> a, args |-> <<p>>,
           r |-> cancelProposal(s, a, p)] :
              a \in Accounts, p \in ProposalKeys}

(* C22 as stated: in every reachable state castVote on a stored proposal   *)
(* whose endTime has passed fails with PeriodElapsed.                       *)
VoteAfterEndIsPeriodElapsed ==
    \A a \in Accounts, p \in ProposalKeys, support \in BOOLEAN :
        (ProposalExists(governance, p) /\ now > governance.proposals[p].endTime)
            => LET r == castVote(governance, a, now, p, support)
               IN ~r.ok /\ ErrorKind(r.err) = "PeriodElapsed"

(* C22: in every reachable state castVote on a stored proposal whose       *)
(* endTime has passed fails: with PeriodElapsed if the proposal is neither  *)
(* executed nor canceled, and with the failure of the executed or canceled  *)
(* proposal otherwise; no transaction at such a time changes the            *)
(* proposal's forVotes, againstVotes or endTime, so the tallies stay as     *)
(* they are from then on.                                                   *)
NoVoteAfterEnd ==
    \A p \in ProposalKeys :
        (ProposalExists(governance, p) /\ now > governance.proposals[p].endTime)
            => LET proposal == governance.proposals[p]
               IN /\ \A a \in Accounts, support \in BOOLEAN :
                         LET r == castVote(governance, a, now, p, support)
                         IN /\ ~r.ok
                            /\ ErrorKind(r.err) =
                                   IF proposal.executed
                                   THEN "Proposal already executed"
                                   ELSE IF proposal.canceled
                                   THEN "Proposal canceled"
                                   ELSE "PeriodElapsed"
                  /\ \A c \in GovernanceCalls(governance, now) :
                         /\ c.r.st.proposals[p].forVotes = proposal.forVotes
                         /\ c.r.st.proposals[p].againstVotes =
                                proposal.againstVotes
                         /\ c.r.st.proposals[p].endTime = proposal.endTime

(* castVote by an account that has not voted has failed with PeriodElapsed *)
(* on a proposal with one vote                                              *)
LateVoteFailed ==
    /\ GovernanceSent("castVote")
    /\ ~receipt.ok
    /\ ErrorKind(receipt.err) = "PeriodElapsed"
    /\ ~governance.hasVoted[receipt.args[1]][receipt.sender]
    /\ governance.proposals[receipt.args[1]].forVotes = 1
    /\ now > governance.proposals[receipt.args[1]].endTime

(* C23 as stated: in every reachable state executeProposal on a stored     *)
(* proposal with forVotes <= againstVotes fails with ProposalRejected.      *)
TieFailsProposalRejected ==
    \A a \in Accounts, p \in ProposalKeys :
        (/\ ProposalExists(governance, p)
         /\ governance.proposals[p].forVotes
                <= governance.proposals[p].againstVotes)
            => LET r == executeProposal(governance, a, now, p)
               IN ~r.ok /\ ErrorKind(r.err) = "ProposalRejected"

(* C23: in every reachable state an executed proposal has                   *)
(* forVotes > againstVotes, and executeProposal on a stored proposal with   *)
(* forVotes <= againstVotes (a tie, zero votes included) fails and changes  *)
(* nothing: with ProposalRejected when the proposal is not canceled and     *)
(* its endTime has passed, with the failure of the canceled or the not yet  *)
(* ended proposal otherwise.                                                *)
ExecutedHasMajority ==
    \A p \in ProposalKeys :
        LET proposal == governance.proposals[p]
        IN /\ proposal.executed => proposal.forVotes > proposal.againstVotes
           /\ (/\ ProposalExists(governance, p)
               /\ proposal.forVotes <= proposal.againstVotes)
                  => \A a \in Accounts :
                         LET r == executeProposal(governance, a, now, p)
                         IN /\ ~r.ok
                            /\ r.st = governance
                            /\ ErrorKind(r.err) =
                                   IF proposal.canceled
                                   THEN "Proposal canceled"
                                   ELSE IF now <= proposal.endTime
                                   THEN "PeriodNotElapsed"
                                   ELSE "ProposalRejected"

(* executeProposal has failed with ProposalRejected on a tie of one vote   *)
(* each                                                                     *)
TieRejected ==
    /\ GovernanceSent("executeProposal")
    /\ ~receipt.ok
    /\ ErrorKind(receipt.err) = "ProposalRejected"
    /\ governance.proposals[receipt.args[1]].forVotes = 1
    /\ governance.proposals[receipt.args[1]].againstVotes = 1

(* C24: in every reachable state cancelProposal on a stored proposal that  *)
(* is neither executed nor canceled succeeds for its proposer and for the   *)
(* owner and fails with Unauthorized, changing nothing, for every other     *)
(* account; and a transaction after which a proposal is canceled that was   *)
(* not canceled before is a cancelProposal of that proposal sent by its     *)
(* proposer or by the owner.                                                *)
CancelOnlyByProposerOrOwner ==
    /\ \A a \in Accounts, p \in ProposalKeys :
           LET proposal == governance.proposals[p]
               r == cancelProposal(governance, a, p)
           IN (/\ ProposalExists(governance, p)
               /\ ~proposal.executed
               /\ ~proposal.canceled)
                  => IF a = proposal.proposer \/ a = governance.owner
                     THEN r.ok /\ r.st.proposals[p].canceled
                     ELSE /\ ~r.ok
                          /\ ErrorKind(r.err) = "Unauthorized"
                          /\ r.st = governance
    /\ \A c \in GovernanceCalls(governance, now), p \in ProposalKeys :
           (~governance.proposals[p].canceled /\ c.r.st.proposals[p].canceled)
               => /\ c.op = "cancelProposal"
                  /\ c.args[1] = p
                  /\ c.sender \in {governance.proposals[p].proposer,
                                   governance.owner}

(* cancelProposal by an account that is neither the proposer nor the owner *)
(* has failed on a proposal that has a vote                                 *)
CancelByStrangerFailed ==
    /\ GovernanceSent("cancelProposal")
    /\ ~receipt.ok
    /\ ErrorKind(receipt.err) = "Unauthorized"
    /\ receipt.sender # governance.owner
    /\ receipt.sender # governance.proposals[receipt.args[1]].proposer
    /\ ~governance.proposals[receipt.args[1]].canceled
    /\ governance.proposals[receipt.args[1]].forVotes = 1

ActiveFlagsStaySet ==
    /\ \A a \in Addresses :
           HasProfile(socialMedia, a) => socialMedia.profiles[a].isActive
    /\ \A k \in PostKeys :
           PostExists(socialMedia, k) => socialMedia.posts[k].isActive
    /\ \A k \in CommentKeys :
           socialMedia.comments[k].id # 0 => socialMedia.comments[k].isActive
    /\ \A a \in Accounts :
           /\ \A in \in ProfileInputs :
                  ErrorKind(updateProfile(socialMedia, a,
                                          in[1], in[2], in[3]).err)
                      # "Inactive"
           /\ \A h \in IpfsHashes :
                  ErrorKind(createPost(socialMedia, a, now, h).err)
                      # "Inactive"
           /\ \A p \in PostKeys :
                  /\ ErrorKind(likePost(socialMedia, a, p).err) # "Inactive"
                  /\ ErrorKind(unlikePost(socialMedia, a, p).err) # "Inactive"
                  /\ \A c \in Contents :
                         ErrorKind(addComment(socialMedia, a, now, p, c).err)
                             # "Inactive"
           /\ \A b \in Addresses :
                  ErrorKind(followUser(socialMedia, a, b).err) # "Inactive"

(* Two profiles, a post and a comment are stored, all active, after a      *)
(* follow and a like that has been removed                                  *)
EverythingStoredIsActive ==
    /\ \A a \in Accounts : socialMedia.profiles[a].isActive
    /\ socialMedia.posts[1].isActive
    /\ socialMedia.comments[1].isActive
    /\ Sent("unlikePost")
    /\ receipt.ok
    /\ \E a \in Accounts : socialMedia.profiles[a].followerCount = 1

(* C27: in every reachable state followUser(target) by A fails with        *)
(* SelfReference if target is A, whether or not A has a profile; otherwise  *)
(* with NotFound if A or the target has no profile, also where the edge     *)
(* were already set; otherwise with AlreadyFollowing if the edge is set;    *)
(* and succeeds otherwise.  Every failure leaves the storage, edges and     *)
(* counts included, as it was.                                              *)
FollowUserRequireOrder ==
    \A a \in Accounts, b \in Addresses :
        LET r == followUser(socialMedia, a, b)
            withEdge == [socialMedia EXCEPT !.follows[a][b] = TRUE]
            missing == ~HasProfile(socialMedia, a) \/ ~HasProfile(socialMedia, b)
        IN /\ ~r.ok => r.st = socialMedia
           /\ IF a = b
              THEN /\ ~r.ok
                   /\ ErrorKind(r.err) = "SelfReference"
                   /\ ErrorKind(followUser(withEdge, a, b).err)
                          = "SelfReference"
              ELSE IF missing
              THEN /\ ~r.ok
                   /\ ErrorKind(r.err) = "NotFound"
                   /\ ErrorKind(followUser(withEdge, a, b).err) = "NotFound"
              ELSE IF socialMedia.follows[a][b]
              THEN ~r.ok /\ ErrorKind(r.err) = "AlreadyFollowing"
              ELSE r.ok

(* followUser of oneself by an account without a profile has failed with   *)
(* SelfReference while the other account has a profile                      *)
SelfFollowWithoutProfileFailed ==
    /\ Sent("followUser")
    /\ ~receipt.ok
    /\ receipt.args[1] = receipt.sender
    /\ ErrorKind(receipt.err) = "SelfReference"
    /\ ~HasProfile(socialMedia, receipt.sender)
    /\ \E b \in Accounts : HasProfile(socialMedia, b)

(* C28 as stated: in every reachable state executeProposal on a stored     *)
(* proposal whose endTime has not passed fails with PeriodNotElapsed.       *)
ExecuteBeforeEndIsPeriodNotElapsed ==
    \A a \in Accounts, p \in ProposalKeys :
        (ProposalExists(governance, p) /\ now <= governance.proposals[p].endTime)
            => LET r == executeProposal(governance, a, now, p)
               IN ~r.ok /\ ErrorKind(r.err) = "PeriodNotElapsed"

(* C28: in every reachable state executeProposal on a stored proposal at a *)
(* time <= endTime fails and changes nothing, with PeriodNotElapsed if the  *)
(* proposal is not canceled and with the failure of the canceled proposal   *)
(* otherwise, while castVote by an account that has not voted is accepted   *)
(* on such a proposal that is not canceled, at time = endTime too; an       *)
(* executed proposal has time > endTime; and for no proposal can both a     *)
(* castVote and an executeProposal succeed at the same time.                *)
NoExecuteBeforeEnd ==
    \A p \in ProposalKeys :
        LET proposal == governance.proposals[p]
        IN /\ proposal.executed => now > proposal.endTime
           /\ (ProposalExists(governance, p) /\ now <= proposal.endTime)
                  => \A a \in Accounts :
                         LET r == executeProposal(governance, a, now, p)
                         IN /\ ~r.ok
                            /\ r.st = governance
                            /\ ErrorKind(r.err) =
                                   IF proposal.canceled
                                   THEN "Proposal canceled"
                                   ELSE "PeriodNotElapsed"
                            /\ \A support \in BOOLEAN :
                                   (~proposal.canceled
                                        /\ ~governance.hasVoted[p][a])
                                       => castVote(governance, a, now,
                                                   p, support).ok
           /\ \A a \in Accounts, b \in Accounts, support \in BOOLEAN :
                  ~(/\ castVote(governance, a, now, p, support).ok
                    /\ executeProposal(governance, b, now, p).ok)

(* executeProposal has failed with PeriodNotElapsed at the very endTime of *)
(* a proposal that has one vote for and none against                        *)
ExecuteAtEndTimeFailed ==
    /\ GovernanceSent("executeProposal")
    /\ ~receipt.ok
    /\ ErrorKind(receipt.err) = "PeriodNotElapsed"
    /\ now = governance.proposals[receipt.args[1]].endTime
    /\ governance.proposals[receipt.args[1]].forVotes = 1
    /\ governance.proposals[receipt.args[1]].againstVotes = 0

(* C29: in every reachable state executeProposal does not fail with        *)
(* QuorumNotMet, whoever sends it on whatever id; the quorum of every vote  *)
(* count that the accounts can cast is at most that count; and on a stored  *)
(* proposal that is neither executed nor canceled and whose endTime has     *)
(* passed executeProposal succeeds exactly if forVotes > againstVotes.      *)
QuorumNeverFails ==
    /\ \A totalVotes \in 0..NumAccounts :
           totalVotes >= (totalVotes * QUORUM_PERCENTAGE) \div 100
    /\ \A a \in Accounts, p \in ProposalKeys :
           LET proposal == governance.proposals[p]
               r == executeProposal(governance, a, now, p)
           IN /\ ErrorKind(r.err) # "QuorumNotMet"
              /\ (/\ ProposalExists(governance, p)
                  /\ ~proposal.executed
                  /\ ~proposal.canceled
                  /\ now > proposal.endTime)
                     => /\ r.ok <=> proposal.forVotes > proposal.againstVotes
                        /\ ~r.ok => ErrorKind(r.err) = "ProposalRejected"

(* executeProposal has succeeded on a proposal with one vote, cast for it  *)
ExecutedOnOneVote ==
    /\ GovernanceSent("executeProposal")
    /\ receipt.ok
    /\ governance.proposals[receipt.args[1]].executed
    /\ governance.proposals[receipt.args[1]].forVotes = 1
    /\ governance.proposals[receipt.args[1]].againstVotes = 0

(* C30: in every reachable state no proposal is both executed and          *)
(* canceled; every transaction leaves an executed proposal executed and a   *)
(* canceled one canceled; and executeProposal on an executed proposal       *)
(* fails and changes nothing, so it succeeds at most once per proposal.     *)
ExecutedAtMostOnce ==
    \A p \in ProposalKeys :
        LET proposal == governance.proposals[p]
        IN /\ ~(proposal.executed /\ proposal.canceled)
           /\ \A c \in GovernanceCalls(governance, now) :
                  /\ proposal.executed => c.r.st.proposals[p].executed
                  /\ proposal.canceled => c.r.st.proposals[p].canceled
                  /\ ~(c.r.st.proposals[p].executed
                           /\ c.r.st.proposals[p].canceled)
           /\ proposal.executed
                  => \A a \in Accounts :
                         LET r == executeProposal(governance, a, now, p)
                         IN /\ ~r.ok
                            /\ r.err = "Proposal already executed"
                            /\ r.st = governance

(* A second executeProposal of an executed proposal has failed *)
SecondExecuteFailed ==
    /\ GovernanceSent("executeProposal")
    /\ ~receipt.ok
    /\ receipt.err = "Proposal already executed"
    /\ governance.proposals[receipt.args[1]].executed
    /\ ~governance.proposals[receipt.args[1]].canceled

(* C31: in every reachable state, for every proposal that is executed or   *)
(* canceled, every castVote, executeProposal and cancelProposal on it       *)
(* fails, and no transaction at all changes its record (tallies and flags   *)
(* included) or the votes recorded for it.                                  *)
ExecutedAndCanceledAreTerminal ==
    \A p \in ProposalKeys :
        (governance.proposals[p].executed \/ governance.proposals[p].canceled)
            => \A c \in GovernanceCalls(governance, now) :
                   /\ (c.op # "createProposal" /\ c.args[1] = p) => ~c.r.ok
                   /\ c.r.st.proposals[p] = governance.proposals[p]
                   /\ c.r.st.hasVoted[p] = governance.hasVoted[p]

(* cancelProposal of a canceled proposal that has a vote has failed *)
SecondCancelFailed ==
    /\ GovernanceSent("cancelProposal")
    /\ ~receipt.ok
    /\ receipt.err = "Proposal already canceled"
    /\ governance.proposals[receipt.args[1]].canceled
    /\ governance.proposals[receipt.args[1]].againstVotes = 1

Voters(s, p) == {v \in Addresses : s.hasVoted[p][v]}

(* C32: in every reachable state forVotes + againstVotes of every proposal *)
(* is the number of accounts recorded as having voted on it, and votes are  *)
(* recorded only for stored proposals.                                      *)
TalliesCountVoters ==
    \A p \in ProposalKeys :
        /\ governance.proposals[p].forVotes
               + governance.proposals[p].againstVotes
           = Cardinality(Voters(governance, p))
        /\ Voters(governance, p) # {} => ProposalExists(governance, p)

(* Two accounts have voted on a proposal, one for and one against *)
TwoVotersTwoVotes ==
    /\ GovernanceSent("castVote")
    /\ receipt.ok
    /\ Cardinality(Voters(governance, receipt.args[1])) = 2
    /\ governance.proposals[receipt.args[1]].forVotes = 1
    /\ governance.proposals[receipt.args[1]].againstVotes = 1

(* C33: in every reachable state, on a stored proposal that is neither     *)
(* executed nor canceled, whose endTime has passed and that has             *)
(* forVotes > againstVotes, cancelProposal by the proposer and by the owner *)
(* succeeds, and in the storage it leaves executeProposal fails for every   *)
(* sender, now and a block later; executeProposal succeeds there as well,   *)
(* and in the storage it leaves cancelProposal fails for every sender.      *)
CancelAfterEndStillWins ==
    \A p \in ProposalKeys :
        LET proposal == governance.proposals[p]
        IN (/\ ProposalExists(governance, p)
            /\ ~proposal.executed
            /\ ~proposal.canceled
            /\ now > proposal.endTime
            /\ proposal.forVotes > proposal.againstVotes)
               => /\ \A a \in {proposal.proposer, governance.owner} :
                         LET r == cancelProposal(governance, a, p)
                         IN /\ r.ok
                            /\ r.st.proposals[p].canceled
                            /\ \A b \in Accounts,
                                  t \in {now, now + BlockInterval} :
                                   LET e == executeProposal(r.st, b, t, p)
                                   IN ~e.ok /\ e.st = r.st
                  /\ \A a \in Accounts :
                         LET e == executeProposal(governance, a, now, p)
                         IN /\ e.ok
                            /\ \A b \in Accounts :
                                   ~cancelProposal(e.st, b, p).ok

(* cancelProposal has succeeded after the endTime of a proposal that the   *)
(* votes had accepted                                                       *)
AcceptedProposalCanceled ==
    /\ GovernanceSent("cancelProposal")
    /\ receipt.ok
    /\ governance.proposals[receipt.args[1]].canceled
    /\ now > governance.proposals[receipt.args[1]].endTime
    /\ governance.proposals[receipt.args[1]].forVotes = 1
    /\ governance.proposals[receipt.args[1]].againstVotes = 0

(* C34: in every reachable state isFollowing(A, B) implies that A is not B *)
(* and that both A and B have profiles: nobody follows oneself, and an      *)
(* account without a profile has no follower and follows nobody.            *)
FollowEdgesWellFormed ==
    \A a \in Addresses, b \in Addresses :
        isFollowing(socialMedia, a, b) =>
            /\ a # b
            /\ HasProfile(socialMedia, a)
            /\ HasProfile(socialMedia, b)

(* Two accounts follow each other, neither follows oneself, and a         *)
(* followUser of oneself has just failed                                    *)
MutualFollow ==
    \E a \in Accounts, b \in Accounts :
        /\ isFollowing(socialMedia, a, b)
        /\ isFollowing(socialMedia, b, a)
        /\ ~isFollowing(socialMedia, a, a)
        /\ ~isFollowing(socialMedia, b, b)
        /\ Sent("followUser")
        /\ ~receipt.ok
        /\ ErrorKind(receipt.err) = "SelfReference"

(* C35: whenever the Home feed shows its list (not loading, no error), the *)
(* ids of the posts listed are strictly descending, so that no post is      *)
(* listed twice: the initial fetch lists the newest page and each Load More *)
(* appends older posts only.                                                *)
FeedStrictlyDescending ==
    (~home.loading /\ home.error = "null") =>
        \A i \in 1..Len(home.posts), j \in 1..Len(home.posts) :
            i < j => home.posts[i].id > home.posts[j].id

(* C36: in every state of the wallet provider socialMediaContract is       *)
(* non-null only while account is non-null, whatever the order of           *)
(* connectWallet, disconnectWallet, accountsChanged and the settling of     *)
(* their contract lookups.                                                  *)
ContractOnlyWhileConnected ==
    web3.socialMediaContract # Null => web3.account # Null

====
